---- MODULE Spec2Model ----
(***************************************************************************)
(* A model of package configurama (v2, with the shared v1 merge and diff   *)
(* engines): a pool of named sections of key/value string pairs.           *)
(*                                                                         *)
(* Go maps are reference values.  The module therefore has two layers:     *)
(*   - contents: a map[string]map[string]string as a function whose domain *)
(*     is a set of section names, each mapped to a function from a set of  *)
(*     keys to values;                                                     *)
(*   - a store of map objects (outer and inner) addressed by references,   *)
(*     on which the Pool methods act, so that sharing of storage between   *)
(*     the pool and its callers is visible.                                *)
(***************************************************************************)
EXTENDS Integers, FiniteSets, Sequences, TLC

\* ------------------------------------------------------------------------
\* Universes of the inputs.
\* ------------------------------------------------------------------------
Sections == {"db", "log"}
Keys == {"host", "port"}
Values == {"", "x"}

\* The largest number of key/value entries of a map drawn as an input.
MaxEntries == 3

\* Strategy constants (iota).
Report == 0
Overwrite == 1
Keep == 2
Strategies == {Report, Overwrite, Keep}

NoError == <<>>

\* ------------------------------------------------------------------------
\* Contents of Go maps.
\* ------------------------------------------------------------------------
EmptyMap == <<>>

\* map[string]string values over the universe.
ParamMaps == UNION {[K -> Values] : K \in SUBSET Keys}

\* map[string]map[string]string values over the universe.
SectionMaps == UNION {[S -> ParamMaps] : S \in SUBSET Sections}

RECURSIVE SumOver(_, _)
SumOver(f, S) ==
    IF S = {} THEN 0
    ELSE LET s == CHOOSE x \in S : TRUE
         IN Cardinality(DOMAIN f[s]) + SumOver(f, S \ {s})

\* The number of key/value entries of a sectioned map.
Entries(m) == SumOver(m, DOMAIN m)

InputMaps == {m \in SectionMaps : Entries(m) <= MaxEntries}

\* m with m[k] = v stored (added or replaced).
Put(m, k, v) == [x \in DOMAIN m \cup {k} |-> IF x = k THEN v ELSE m[x]]

\* m with key k deleted.
Del(m, k) == [x \in DOMAIN m \ {k} |-> m[x]]

\* The orders in which a range loop may visit the set S.
Perms(S) == {f \in [1..Cardinality(S) -> S] : \A i, j \in 1..Cardinality(S) : f[i] = f[j] => i = j}

\* The orders in which the keys of each section in S of m may be visited.
RECURSIVE KeyOrders(_, _)
KeyOrders(m, S) ==
    IF S = {} THEN {EmptyMap}
    ELSE LET s == CHOOSE x \in S : TRUE
         IN {Put(f, s, ks) : f \in KeyOrders(m, S \ {s}), ks \in Perms(DOMAIN m[s])}

\* The orders in which the nested range loops over a sectioned map m may
\* run: an order of its sections and, for each section, an order of its keys.
RangeOrders(m) ==
    {[secs |-> so, keys |-> ko] : so \in Perms(DOMAIN m), ko \in KeyOrders(m, DOMAIN m)}

\* ------------------------------------------------------------------------
\* merge
\* ------------------------------------------------------------------------

\* Mutant of MergeKeys: under Report an existing key is skipped without an error.
RECURSIVE MergeKeysNoReport(_, _, _, _, _, _)
MergeKeysNoReport(acc, sec, kv, ks, i, strategy) ==
    IF i > Len(ks) THEN acc
    ELSE LET key == ks[i]
             val == kv[key]
         IN IF key \in DOMAIN acc.res[sec] /\ strategy # Overwrite
            THEN MergeKeysNoReport(acc, sec, kv, ks, i + 1, strategy)
            ELSE MergeKeysNoReport([acc EXCEPT !.res = Put(acc.res, sec, Put(acc.res[sec], key, val))],
                                   sec, kv, ks, i + 1, strategy)

\* Mutant of MergeKeys: Report fails only when the two values differ.
RECURSIVE MergeKeysDivergentOnly(_, _, _, _, _, _)
MergeKeysDivergentOnly(acc, sec, kv, ks, i, strategy) ==
    IF i > Len(ks) THEN acc
    ELSE LET key == ks[i]
             val == kv[key]
         IN IF key \in DOMAIN acc.res[sec]
            THEN IF strategy = Report /\ acc.res[sec][key] # val
                 THEN [res |-> acc.res, err |-> <<sec, key>>]
                 ELSE IF strategy = Overwrite
                 THEN MergeKeysDivergentOnly(
                          [acc EXCEPT !.res = Put(acc.res, sec, Put(acc.res[sec], key, val))],
                          sec, kv, ks, i + 1, strategy)
                 ELSE MergeKeysDivergentOnly(acc, sec, kv, ks, i + 1, strategy)
            ELSE MergeKeysDivergentOnly(
                     [acc EXCEPT !.res = Put(acc.res, sec, Put(acc.res[sec], key, val))],
                     sec, kv, ks, i + 1, strategy)

\* Mutant of MergeKeys: the Overwrite and Keep cases are exchanged.
RECURSIVE MergeKeysSwapped(_, _, _, _, _, _)
MergeKeysSwapped(acc, sec, kv, ks, i, strategy) ==
    IF i > Len(ks) THEN acc
    ELSE LET key == ks[i]
             val == kv[key]
         IN IF key \in DOMAIN acc.res[sec]
            THEN IF strategy = Report
                 THEN [res |-> acc.res, err |-> <<sec, key>>]
                 ELSE IF strategy = Keep
                 THEN MergeKeysSwapped(
                          [acc EXCEPT !.res = Put(acc.res, sec, Put(acc.res[sec], key, val))],
                          sec, kv, ks, i + 1, strategy)
                 ELSE MergeKeysSwapped(acc, sec, kv, ks, i + 1, strategy)
            ELSE MergeKeysSwapped(
                     [acc EXCEPT !.res = Put(acc.res, sec, Put(acc.res[sec], key, val))],
                     sec, kv, ks, i + 1, strategy)

\* Mutant of MergeKeys: Keep overwrites an existing key as Overwrite does.
RECURSIVE MergeKeysKeepOverwrites(_, _, _, _, _, _)
MergeKeysKeepOverwrites(acc, sec, kv, ks, i, strategy) ==
    IF i > Len(ks) THEN acc
    ELSE LET key == ks[i]
             val == kv[key]
         IN IF key \in DOMAIN acc.res[sec] /\ strategy = Report
            THEN [res |-> acc.res, err |-> <<sec, key>>]
            ELSE MergeKeysKeepOverwrites(
                     [acc EXCEPT !.res = Put(acc.res, sec, Put(acc.res[sec], key, val))],
                     sec, kv, ks, i + 1, strategy)

\* The inner loop of merge over the keys of one section of "second",
\* visited in the order ks from position i on.  acc is [res, err].
RECURSIVE MergeKeys(_, _, _, _, _, _)
MergeKeys(acc, sec, kv, ks, i, strategy) ==
    IF i > Len(ks) THEN acc
    ELSE LET key == ks[i]
             val == kv[key]
         IN IF key \in DOMAIN acc.res[sec]
            THEN IF strategy = Report
                 THEN [res |-> acc.res, err |-> <<sec, key>>]
                 ELSE IF strategy = Overwrite
                 THEN MergeKeys([acc EXCEPT !.res = Put(acc.res, sec, Put(acc.res[sec], key, val))],
                                sec, kv, ks, i + 1, strategy)
                 ELSE MergeKeys(acc, sec, kv, ks, i + 1, strategy)
            ELSE MergeKeys([acc EXCEPT !.res = Put(acc.res, sec, Put(acc.res[sec], key, val))],
                           sec, kv, ks, i + 1, strategy)

\* Mutant of MergeSections: a section new to the result is made without its keys.
RECURSIVE MergeSectionsEmptyCopy(_, _, _, _, _)
MergeSectionsEmptyCopy(acc, second, ord, i, strategy) ==
    IF i > Len(ord.secs) THEN acc
    ELSE LET sec == ord.secs[i]
             step == IF sec \in DOMAIN acc.res
                     THEN MergeKeys(acc, sec, second[sec], ord.keys[sec], 1, strategy)
                     ELSE [acc EXCEPT !.res = Put(acc.res, sec, EmptyMap)]
         IN IF step.err # NoError THEN step
            ELSE MergeSectionsEmptyCopy(step, second, ord, i + 1, strategy)

\* The outer loop of merge over the sections of "second", visited in the
\* order ord.secs from position i on.
RECURSIVE MergeSections(_, _, _, _, _)
MergeSections(acc, second, ord, i, strategy) ==
    IF i > Len(ord.secs) THEN acc
    ELSE LET sec == ord.secs[i]
             step == IF sec \in DOMAIN acc.res
                     THEN MergeKeys(acc, sec, second[sec], ord.keys[sec], 1, strategy)
                     ELSE [acc EXCEPT !.res = Put(acc.res, sec, second[sec])]
         IN IF step.err # NoError THEN step
            ELSE MergeSections(step, second, ord, i + 1, strategy)

\* Mutant of merge: both edge cases return "second".
mergeReturnsSecondTwice(first, second, strategy, ord) ==
    IF Cardinality(DOMAIN first) = 0 THEN [res |-> second, err |-> NoError]
    ELSE IF Cardinality(DOMAIN second) = 0 THEN [res |-> second, err |-> NoError]
    ELSE MergeSections([res |-> first, err |-> NoError], second, ord, 1, strategy)

\* merge(first, second, strategy) on contents, with the range loops over
\* "second" run in the order ord.  The result is [res, err]; err is NoError
\* (nil) or the <<section, key>> the error message names.
merge(first, second, strategy, ord) ==
    IF Cardinality(DOMAIN first) = 0 THEN [res |-> second, err |-> NoError]
    ELSE IF Cardinality(DOMAIN second) = 0 THEN [res |-> first, err |-> NoError]
    ELSE MergeSections([res |-> first, err |-> NoError], second, ord, 1, strategy)

\* ------------------------------------------------------------------------
\* diff
\* ------------------------------------------------------------------------

\* Mutant of DiffKeys: a key held with another value is not reported.
DiffKeysMissingOnly(first, second, sec) ==
    {key \in DOMAIN first[sec] : sec \notin DOMAIN second \/ key \notin DOMAIN second[sec]}

\* The keys of first[sec] that second[sec] lacks or holds with another value.
DiffKeys(first, second, sec) ==
    {key \in DOMAIN first[sec] :
        \/ sec \notin DOMAIN second
        \/ key \notin DOMAIN second[sec]
        \/ second[sec][key] # first[sec][key]}

\* Mutant of diff: no section is made for a section missing from "second"
\* unless it has keys.
diffNoEmptySection(first, second) ==
    LET made == {sec \in DOMAIN first : DiffKeys(first, second, sec) # {}}
    IN [sec \in made |-> [key \in DiffKeys(first, second, sec) |-> first[sec][key]]]

\* diff(first, second): a section of the result is made when the section is
\* missing from "second" (even if it has no keys) or when some key differs.
diff(first, second) ==
    LET made == {sec \in DOMAIN first :
                    sec \notin DOMAIN second \/ DiffKeys(first, second, sec) # {}}
    IN [sec \in made |-> [key \in DiffKeys(first, second, sec) |-> first[sec][key]]]

\* ------------------------------------------------------------------------
\* The store of map objects.
\* ------------------------------------------------------------------------
VARIABLES
    outer,      \* the outer map objects: reference -> [section -> inner reference]
    inner,      \* the inner map objects: reference -> [key -> value]
    params,     \* Pool.params: a reference to an outer map object, or Nil
    held,       \* the sectioned map the caller holds: [kind, ref]
    got,        \* the Params value the caller holds: an inner reference, or Nil
    last,       \* the last call on the pool and what it returned
    prev,       \* the call before last, in the runs that keep it (CallSpec)
    steps,      \* the number of calls and caller writes so far
    inFirst,    \* pure engines: the first input
    inSecond,   \* pure engines: the second input
    inStrategy, \* pure engines: the merge strategy
    out,        \* pure engines: the function applied and its result
    secParams,  \* accessors: the section (a Params value)
    optList,    \* accessors: the options passed
    ret,        \* accessors: the accessor called and what it returned
    ppPool,     \* printer: the pool printed
    ppIndent,   \* printer: the indentation
    ppOut,      \* printer: whether MustPrettyPrint has run, and its result
    pmap,       \* threads: the contents of p.params
    mu,         \* threads: p.mu, the thread that holds it or Free
    pc,         \* threads: where each thread is in its call
    task,       \* threads: the call each thread makes
    seen,       \* threads: what each thread has read, copied or computed
    access,     \* threads: the last step, and how it touched p.params
    retval,     \* threads: what each thread's call returned
    pools,      \* two pools: the contents of p.params and of q.params
    mus,        \* two pools: p.mu and q.mu, the thread that holds each or Free
    writing,    \* two pools: the write of a map of q that is under way
    cmp,        \* two pools: the thread in p.Compare(q)
    chg,        \* two pools: the thread in a call on q
    touch,      \* two pools: the last step, and how it touched which pool
    hookPool,   \* hooks: the contents of the v1 pool's params
    hookCall,   \* hooks: the arguments of ExtractWithHooks
    hookRun,    \* hooks: where the call is, its local params, what ran, its error
    hookOut     \* hooks: the struct passed as "out"

storeVars == <<outer, inner, params, held, got, last, prev, steps>>
pureVars == <<inFirst, inSecond, inStrategy, out>>
paramVars == <<secParams, optList, ret>>
printVars == <<ppPool, ppIndent, ppOut>>
threadVars == <<pmap, mu, pc, task, seen, access, retval>>
twoPoolsVars == <<pools, mus, writing, cmp, chg, touch>>
hookVars == <<hookPool, hookCall, hookRun, hookOut>>
vars == <<outer, inner, params, held, got, last, prev, steps, inFirst, inSecond, inStrategy, out,
          secParams, optList, ret, ppPool, ppIndent, ppOut,
          pmap, mu, pc, task, seen, access, retval,
          pools, mus, writing, cmp, chg, touch,
          hookPool, hookCall, hookRun, hookOut>>

\* The variables each layer leaves alone.
notStore == <<pureVars, paramVars, printVars, threadVars, twoPoolsVars, hookVars>>
notPure == <<storeVars, paramVars, printVars, threadVars, twoPoolsVars, hookVars>>
notParam == <<storeVars, pureVars, printVars, threadVars, twoPoolsVars, hookVars>>
notPrint == <<storeVars, pureVars, paramVars, threadVars, twoPoolsVars, hookVars>>
notThreads == <<storeVars, pureVars, paramVars, printVars, twoPoolsVars, hookVars>>
notTwoPools == <<storeVars, pureVars, paramVars, printVars, threadVars, hookVars>>
notHooks == <<storeVars, pureVars, paramVars, printVars, threadVars, twoPoolsVars>>

\* The largest number of calls and caller writes after New in one run.
MaxSteps == 2

\* The nil map.
Nil == 0

NoHeld == [kind |-> "none", ref |-> Nil]

\* The order in which references are numbered (see Norm).
SectionOrder == <<"db", "log">>

Store == [outer |-> outer, inner |-> inner]

\* Reading a map through a reference; a nil map reads as empty.
Deref(st, ref) == IF ref = Nil THEN EmptyMap ELSE st.outer[ref]

\* Reading a section's map through a reference; a nil map reads as empty.
DerefInner(st, ref) == IF ref = Nil THEN EmptyMap ELSE st.inner[ref]

\* The contents of the sectioned map at ref.
Content(st, ref) ==
    LET o == Deref(st, ref) IN [sec \in DOMAIN o |-> DerefInner(st, o[sec])]

\* make(map[string]string) filled with kv; the new reference is Len(st.inner) + 1.
AllocInner(st, kv) == [st EXCEPT !.inner = Append(@, kv)]

RECURSIVE AllocSections(_, _, _, _)
AllocSections(st, ref, c, secs) ==
    IF secs = {} THEN st
    ELSE LET sec == CHOOSE x \in secs : TRUE
             st1 == AllocInner(st, c[sec])
             st2 == [st1 EXCEPT !.outer[ref] = Put(@, sec, Len(st1.inner))]
         IN AllocSections(st2, ref, c, secs \ {sec})

\* A new outer map with a new inner map per section, holding the contents c;
\* the new reference is Len(st.outer) + 1.
AllocMap(st, c) ==
    AllocSections([st EXCEPT !.outer = Append(@, EmptyMap)], Len(st.outer) + 1, c, DOMAIN c)

\* The map literal a caller builds: contents c, with a nil map for the
\* sections in nils; the new reference is Len(st.outer) + 1.
AllocLiteral(st, c, nils) ==
    LET st1 == AllocMap(st, c)
    IN [st1 EXCEPT !.outer[Len(st.outer) + 1] =
           [sec \in DOMAIN @ |-> IF sec \in nils THEN Nil ELSE @[sec]]]

\* The sections of c a caller can leave nil: those without keys.
NilChoices(c) == SUBSET {sec \in DOMAIN c : c[sec] = EmptyMap}

\* merge on references: the edge cases return an input map itself, the
\* general case builds a new map and writes to neither input.
mergeRefs(st, first, second, strategy, ord) ==
    IF Cardinality(DOMAIN Deref(st, first)) = 0
    THEN [st |-> st, res |-> second, err |-> NoError]
    ELSE IF Cardinality(DOMAIN Deref(st, second)) = 0
    THEN [st |-> st, res |-> first, err |-> NoError]
    ELSE LET r == merge(Content(st, first), Content(st, second), strategy, ord)
         IN [st |-> AllocMap(st, r.res), res |-> Len(st.outer) + 1, err |-> r.err]

\* ------------------------------------------------------------------------
\* Numbering of references: the objects reachable from the pool and from the
\* caller are renumbered in the order they are met, the others are dropped
\* (garbage).
\* ------------------------------------------------------------------------
RECURSIVE Dedupe(_)
Dedupe(s) ==
    IF s = <<>> THEN <<>>
    ELSE LET r == Dedupe(SubSeq(s, 1, Len(s) - 1))
             x == s[Len(s)]
         IN IF \E i \in 1..Len(r) : r[i] = x THEN r ELSE Append(r, x)

IndexOf(s, x) == CHOOSE i \in 1..Len(s) : s[i] = x

InnerRefsOf(o) ==
    LET present == SelectSeq(SectionOrder, LAMBDA sec : sec \in DOMAIN o)
    IN SelectSeq([i \in 1..Len(present) |-> o[present[i]]], LAMBDA r : r # Nil)

NormWith(st, p, h, g, oroots, iroots) ==
    [outer |-> [i \in 1..Len(oroots) |->
                   [sec \in DOMAIN st.outer[oroots[i]] |->
                       IF st.outer[oroots[i]][sec] = Nil THEN Nil
                       ELSE IndexOf(iroots, st.outer[oroots[i]][sec])]],
     inner |-> [j \in 1..Len(iroots) |-> st.inner[iroots[j]]],
     params |-> IF p = Nil THEN Nil ELSE IndexOf(oroots, p),
     held |-> IF h.ref = Nil THEN h ELSE [h EXCEPT !.ref = IndexOf(oroots, h.ref)],
     got |-> IF g = Nil THEN Nil ELSE IndexOf(iroots, g)]

InnerRoots(st, oroots, g) ==
    Dedupe((IF Len(oroots) >= 1 THEN InnerRefsOf(st.outer[oroots[1]]) ELSE <<>>)
           \o (IF Len(oroots) >= 2 THEN InnerRefsOf(st.outer[oroots[2]]) ELSE <<>>)
           \o (IF g # Nil THEN <<g>> ELSE <<>>))

OuterRoots(p, h) == Dedupe(SelectSeq(<<p, h.ref>>, LAMBDA r : r # Nil))

Norm(st, p, h, g) ==
    NormWith(st, p, h, g, OuterRoots(p, h), InnerRoots(st, OuterRoots(p, h), g))

Call(op, section, key, value, ok, err) ==
    [op |-> op, section |-> section, key |-> key, value |-> value, ok |-> ok, err |-> err]

\* The value of prev in the runs that keep no history.
NotKept == Call("not kept", "", "", "", TRUE, NoError)

\* The next state of the store after a call.
Commit(st, p, h, g, l) ==
    /\ steps < MaxSteps
    /\ steps' = steps + 1
    /\ \E n \in {Norm(st, p, h, g)} :
          /\ outer' = n.outer
          /\ inner' = n.inner
          /\ params' = n.params
          /\ held' = n.held
          /\ got' = n.got
    /\ last' = l
    /\ prev' = IF prev = NotKept THEN NotKept ELSE last
    /\ UNCHANGED notStore


\* ------------------------------------------------------------------------
\* The Pool methods (v2), each one call run to completion under the mutex.
\* ------------------------------------------------------------------------

\* The maps a caller builds and passes to Merge.
MergeArgs ==
    {EmptyMap,
     [sec \in {"db"} |-> [key \in {"host"} |-> "x"]],
     [sec \in {"db"} |-> [key \in {"host", "port"} |-> "x"]],
     [sec \in {"log"} |-> [key \in {"port"} |-> ""]],
     [sec \in {"db", "log"} |-> [key \in {"port"} |-> "x"]]}

\* What Raw returns: the copy myPool is built and dropped, p.params is returned.
RawResult(st, p) ==
    LET st1 == AllocMap(st, Content(st, p))
    IN [st |-> st1, ref |-> p]

\* Raw()
Raw ==
    \E r \in {RawResult(Store, params)} :
       Commit(r.st, params, [kind |-> "raw", ref |-> r.ref], got,
              Call("Raw", "", "", "", TRUE, NoError))

\* Mutant of ParamsCopy: the section map of the pool itself is returned.
ParamsAlias(st, p, name) == [st |-> st, ref |-> st.outer[p][name]]

\* The copy Params makes of the section name of the pool at p.
ParamsCopy(st, p, name) ==
    [st |-> AllocInner(st, DerefInner(st, st.outer[p][name])), ref |-> Len(st.inner) + 1]

\* Params(name)
Params(name) ==
    IF name \notin DOMAIN Deref(Store, params)
    THEN Commit(Store, params, held, Nil, Call("Params", name, "", "", FALSE, NoError))
    ELSE LET r == ParamsCopy(Store, params, name)
         IN Commit(r.st, params, held, r.ref,
                   Call("Params", name, "", "", TRUE, NoError))

\* Mutant of MergeSwap: the result is stored before the error is looked at.
MergeSwapAlways(p, r) == r.res

\* The assignment to p.params that ends Merge: the result on success, the
\* old map on an error.
MergeSwap(p, r) == IF r.err # NoError THEN p ELSE r.res

\* Merge(m, strategy), m a map the caller has just built with contents c and
\* goes on holding.
Merge(c, strategy) ==
    LET st1 == AllocMap(Store, c)
        m == Len(outer) + 1
    IN \E r \in {mergeRefs(st1, params, m, strategy, ord) : ord \in RangeOrders(c)} :
           Commit(r.st, MergeSwap(params, r), [kind |-> "arg", ref |-> m], got,
                  Call("Merge", "", "", strategy, r.err = NoError, r.err))

\* Get(section, key)
Get(section, key) ==
    LET o == Deref(Store, params)
    IN IF section \notin DOMAIN o
       THEN Commit(Store, params, held, got, Call("Get", section, key, "", FALSE, NoError))
       ELSE LET sec == DerefInner(Store, o[section])
            IN IF key \in DOMAIN sec
               THEN Commit(Store, params, held, got, Call("Get", section, key, sec[key], TRUE, NoError))
               ELSE Commit(Store, params, held, got, Call("Get", section, key, "", FALSE, NoError))

\* Mutant of SetStore: setting the empty string deletes the key.
SetStoreUnsetsEmpty(st, p, section, key, value) ==
    [st EXCEPT !.inner[st.outer[p][section]] =
        IF value = "" THEN Del(@, key) ELSE Put(@, key, value)]

\* The store after sec[key] = value on the section of the pool at p.
SetStore(st, p, section, key, value) ==
    [st EXCEPT !.inner[st.outer[p][section]] = Put(@, key, value)]

\* The run-time panic of an assignment to an entry of a nil map.
Panic == <<"panic">>

\* Set(section, key, value); the error is the NoSectionError of the section,
\* or the panic of sec[key] = value on a section whose map is nil.
Set(section, key, value) ==
    IF section \notin DOMAIN Deref(Store, params)
    THEN Commit(Store, params, held, got, Call("Set", section, key, value, FALSE, <<section>>))
    ELSE IF Deref(Store, params)[section] = Nil
    THEN Commit(Store, params, held, got, Call("Set", section, key, value, FALSE, Panic))
    ELSE Commit(SetStore(Store, params, section, key, value), params, held, got,
                Call("Set", section, key, value, TRUE, NoError))

\* Mutant of UnsetStore: the section is kept, and the key is set to the empty
\* string.
UnsetStoreBlank(st, p, section, key) ==
    IF key = ""
    THEN st
    ELSE [st EXCEPT !.inner[st.outer[p][section]] = Put(@, key, "")]

\* Mutant of UnsetStore: for the empty key the section is emptied, not removed.
UnsetStoreClear(st, p, section, key) ==
    IF key = ""
    THEN [st EXCEPT !.inner[st.outer[p][section]] = EmptyMap]
    ELSE [st EXCEPT !.inner[st.outer[p][section]] = Del(@, key)]

\* The store after Unset has found the section: delete(p.params, section) for
\* the empty key, delete(p.params[section], key) otherwise.
UnsetStore(st, p, section, key) ==
    IF key = ""
    THEN [st EXCEPT !.outer[p] = Del(@, section)]
    ELSE [st EXCEPT !.inner[st.outer[p][section]] = Del(@, key)]

\* Unset(section, key)
Unset(section, key) ==
    LET o == Deref(Store, params)
    IN IF section \notin DOMAIN o
       THEN Commit(Store, params, held, got, Call("Unset", section, key, "", FALSE, NoError))
       ELSE IF key = ""
       THEN Commit(UnsetStore(Store, params, section, key), params, held, got,
                   Call("Unset", section, key, "", TRUE, NoError))
       ELSE IF key \in DOMAIN DerefInner(Store, o[section])
       THEN Commit(UnsetStore(Store, params, section, key), params, held, got,
                   Call("Unset", section, key, "", TRUE, NoError))
       ELSE Commit(Store, params, held, got, Call("Unset", section, key, "", FALSE, NoError))

\* ------------------------------------------------------------------------
\* The caller's own writes to the map it holds.
\* ------------------------------------------------------------------------
HeldOuter == held.ref # Nil

\* m[section][key] = value
CallerPut(section, key, value) ==
    /\ HeldOuter
    /\ section \in DOMAIN outer[held.ref]
    /\ outer[held.ref][section] # Nil
    /\ Commit([Store EXCEPT !.inner[outer[held.ref][section]] = Put(@, key, value)],
              params, held, got, Call("CallerPut", "", "", "", TRUE, NoError))

\* delete(m[section], key)
CallerDelete(section, key) ==
    /\ HeldOuter
    /\ section \in DOMAIN outer[held.ref]
    /\ key \in DOMAIN DerefInner(Store, outer[held.ref][section])
    /\ Commit([Store EXCEPT !.inner[outer[held.ref][section]] = Del(@, key)],
              params, held, got, Call("CallerDelete", "", "", "", TRUE, NoError))

\* delete(m, section)
CallerDeleteSection(section) ==
    /\ HeldOuter
    /\ section \in DOMAIN outer[held.ref]
    /\ Commit([Store EXCEPT !.outer[held.ref] = Del(@, section)],
              params, held, got, Call("CallerDeleteSection", "", "", "", TRUE, NoError))

\* m[section] = map[string]string{}
CallerAddSection(section) ==
    /\ HeldOuter
    /\ section \notin DOMAIN outer[held.ref]
    /\ LET st1 == AllocInner(Store, EmptyMap)
       IN Commit([st1 EXCEPT !.outer[held.ref] = Put(@, section, Len(st1.inner))],
                 params, held, got, Call("CallerAddSection", "", "", "", TRUE, NoError))

\* s[key] = value on a Params value s
CallerPutParam(key, value) ==
    /\ got # Nil
    /\ Commit([Store EXCEPT !.inner[got] = Put(@, key, value)],
              params, held, got, Call("CallerPutParam", "", "", "", TRUE, NoError))

\* delete(s, key) on a Params value s
CallerDeleteParam(key) ==
    /\ got # Nil
    /\ key \in DOMAIN inner[got]
    /\ Commit([Store EXCEPT !.inner[got] = Del(@, key)],
              params, held, got, Call("CallerDeleteParam", "", "", "", TRUE, NoError))

\* ------------------------------------------------------------------------
\* The pool and one caller.
\* ------------------------------------------------------------------------

\* New(m): p := Pool{} and p.Merge(m, Overwrite), for a map m the caller has
\* built (contents c, a nil map for the sections in nils) and goes on holding.
New(c, nils) ==
    LET st0 == [outer |-> <<>>, inner |-> <<>>]
        st1 == AllocLiteral(st0, c, nils)
        r == mergeRefs(st1, Nil, 1, Overwrite, CHOOSE ord \in RangeOrders(c) : TRUE)
    IN Norm(r.st, MergeSwap(Nil, r), [kind |-> "arg", ref |-> 1], Nil)

PureIdle ==
    /\ inFirst = EmptyMap
    /\ inSecond = EmptyMap
    /\ inStrategy = Report
    /\ out = [op |-> "none"]

ParamsIdle ==
    /\ secParams = EmptyMap
    /\ optList = <<>>
    /\ ret = [op |-> "none"]

PrintIdle ==
    /\ ppPool = EmptyMap
    /\ ppIndent = <<>>
    /\ ppOut = [done |-> FALSE, text |-> <<>>]

\* The mutex when no thread holds it.
Free == "free"

\* No thread has been started.
ThreadsIdle ==
    /\ pmap = EmptyMap
    /\ mu = Free
    /\ pc = <<>>
    /\ task = <<>>
    /\ seen = <<>>
    /\ access = [thread |-> "none", kind |-> "none"]
    /\ retval = <<>>

\* No Compare on a second pool has been started.
TwoPoolsIdle ==
    /\ pools = <<>>
    /\ mus = <<>>
    /\ writing = <<>>
    /\ cmp = <<>>
    /\ chg = <<>>
    /\ touch = <<>>

\* ExtractWithHooks has not been called.
HooksIdle ==
    /\ hookPool = <<>>
    /\ hookCall = <<>>
    /\ hookRun = <<>>
    /\ hookOut = <<>>

Init ==
    /\ \E c \in InputMaps : \E nils \in NilChoices(c) :
          LET n == New(c, nils)
          IN /\ outer = n.outer
             /\ inner = n.inner
             /\ params = n.params
             /\ held = n.held
             /\ got = n.got
    /\ last = Call("New", "", "", "", TRUE, NoError)
    /\ prev = NotKept
    /\ steps = 0
    /\ PureIdle
    /\ ParamsIdle
    /\ PrintIdle
    /\ ThreadsIdle
    /\ TwoPoolsIdle
    /\ HooksIdle

Next ==
    \/ Raw
    \/ \E name \in Sections : Params(name)
    \/ \E c \in MergeArgs, strategy \in Strategies : Merge(c, strategy)
    \/ \E section \in Sections, key \in Keys : Get(section, key)
    \/ \E section \in Sections, key \in Keys, value \in Values : Set(section, key, value)
    \/ \E section \in Sections, key \in Keys \cup {""} : Unset(section, key)
    \/ \E section \in Sections, key \in Keys, value \in Values : CallerPut(section, key, value)
    \/ \E section \in Sections, key \in Keys : CallerDelete(section, key)
    \/ \E section \in Sections : CallerDeleteSection(section)
    \/ \E section \in Sections : CallerAddSection(section)
    \/ \E key \in Keys, value \in Values : CallerPutParam(key, value)
    \/ \E key \in Keys : CallerDeleteParam(key)

Spec == Init /\ [][Next]_vars

\* ------------------------------------------------------------------------
\* The pool and a caller that only calls Get, Set, Unset, Params and Raw; the
\* call before the last one is kept, so that what a call returns can be
\* related to the call it follows.
\* ------------------------------------------------------------------------
CallInit ==
    /\ \E c \in InputMaps : \E nils \in NilChoices(c) :
          LET n == New(c, nils)
          IN /\ outer = n.outer
             /\ inner = n.inner
             /\ params = n.params
             /\ held = n.held
             /\ got = n.got
    /\ last = Call("New", "", "", "", TRUE, NoError)
    /\ prev = Call("none", "", "", "", TRUE, NoError)
    /\ steps = 0
    /\ PureIdle
    /\ ParamsIdle
    /\ PrintIdle
    /\ ThreadsIdle
    /\ TwoPoolsIdle
    /\ HooksIdle

CallNext ==
    \/ Raw
    \/ \E name \in Sections : Params(name)
    \/ \E section \in Sections, key \in Keys \cup {""} : Get(section, key)
    \/ \E section \in Sections, key \in Keys, value \in Values : Set(section, key, value)
    \/ \E section \in Sections, key \in Keys \cup {""} : Unset(section, key)

CallSpec == CallInit /\ [][CallNext]_vars

\* The pairs of sections of a map literal for which a caller can use one
\* and the same map: sections that are not nil and hold the same.
ShareChoices(c, nils) ==
    {{}} \cup {{s, t} : s, t \in {x \in DOMAIN c \ nils : \E y \in DOMAIN c \ (nils \cup {x}) : c[x] = c[y]}}

\* The map literal of AllocLiteral with the sections in "pair" (two, or
\* none) set to one inner map.
AllocSharing(st, c, nils, pair) ==
    LET st1 == AllocLiteral(st, c, nils)
    IN IF Cardinality(pair) < 2 THEN st1
       ELSE LET one == CHOOSE s \in pair : TRUE
            IN [st1 EXCEPT !.outer[Len(st.outer) + 1] =
                   [sec \in DOMAIN @ |-> IF sec \in pair THEN @[one] ELSE @[sec]]]

\* New(params) for such a literal.
NewSharing(c, nils, pair) ==
    LET st0 == [outer |-> <<>>, inner |-> <<>>]
        st1 == AllocSharing(st0, c, nils, pair)
        r == mergeRefs(st1, Nil, 1, Overwrite, CHOOSE ord \in RangeOrders(c) : TRUE)
    IN Norm(r.st, MergeSwap(Nil, r), [kind |-> "arg", ref |-> 1], Nil)

\* The calls of CallSpec on a pool made from any map literal a caller can
\* write, one inner map under two section names included.
FrameInit ==
    /\ \E c \in InputMaps : \E nils \in NilChoices(c) : \E pair \in ShareChoices(c, nils) :
          LET n == NewSharing(c, nils, pair)
          IN /\ outer = n.outer
             /\ inner = n.inner
             /\ params = n.params
             /\ held = n.held
             /\ got = n.got
    /\ last = Call("New", "", "", "", TRUE, NoError)
    /\ prev = Call("none", "", "", "", TRUE, NoError)
    /\ steps = 0
    /\ PureIdle
    /\ ParamsIdle
    /\ PrintIdle
    /\ ThreadsIdle
    /\ TwoPoolsIdle
    /\ HooksIdle

FrameSpec == FrameInit /\ [][CallNext]_vars

\* ------------------------------------------------------------------------
\* The merge and diff engines on their own: the inputs are drawn at the
\* start, and an action applies one engine to them.
\* ------------------------------------------------------------------------

\* p.Compare(q), on the contents of the two pools.
Compare(p, q) == diff(q, p)

StoreIdle ==
    /\ outer = <<>>
    /\ inner = <<>>
    /\ params = Nil
    /\ held = NoHeld
    /\ got = Nil
    /\ last = Call("none", "", "", "", TRUE, NoError)
    /\ prev = NotKept
    /\ steps = 0

PureInit ==
    /\ inFirst \in InputMaps
    /\ inSecond \in InputMaps
    /\ inStrategy \in Strategies
    /\ out = [op |-> "none"]
    /\ StoreIdle
    /\ ParamsIdle
    /\ PrintIdle
    /\ ThreadsIdle
    /\ TwoPoolsIdle
    /\ HooksIdle

\* res, err := merge(inFirst, inSecond, inStrategy)
DoMerge ==
    /\ out.op = "none"
    /\ \E ord \in RangeOrders(inSecond) :
          LET r == merge(inFirst, inSecond, inStrategy, ord)
          IN out' = [op |-> "merge", res |-> r.res, err |-> r.err]
    /\ UNCHANGED <<inFirst, inSecond, inStrategy>>
    /\ UNCHANGED notPure

\* p.Compare(q) and q.Compare(p) for pools p, q of contents inFirst, inSecond
DoCompare ==
    /\ out.op = "none"
    /\ out' = [op |-> "Compare", pq |-> Compare(inFirst, inSecond),
               qp |-> Compare(inSecond, inFirst)]
    /\ UNCHANGED <<inFirst, inSecond, inStrategy>>
    /\ UNCHANGED notPure

PureNext == DoMerge \/ DoCompare

PureSpec == PureInit /\ [][PureNext]_vars

\* ------------------------------------------------------------------------
\* The engines applied one after another, as a caller chains them through
\* Merge and Compare.
\* ------------------------------------------------------------------------

\* The merge of "second" into the result r of a merge before it; a failed
\* merge ends the chain.
MergeThen(r, second, strategy, ord) ==
    IF r.err # NoError THEN r ELSE merge(r.res, second, strategy, ord)

\* The merge of the result r of a merge before it into "first".
MergeInto(first, r, strategy, ord) ==
    IF r.err # NoError THEN r ELSE merge(first, r.res, strategy, ord)

\* merge(merge(A, B), C) under strategy s, for every order of the range loops.
LeftChains(A, B, C, s) ==
    {MergeThen(merge(A, B, s, o2), C, s, o3) : o2 \in RangeOrders(B), o3 \in RangeOrders(C)}

\* merge(A, merge(B, C)) under strategy s, for every order of the range loops.
RightChains(A, B, C, s) ==
    UNION {{MergeInto(A, bc, s, o5) : o5 \in RangeOrders(bc.res)} :
              bc \in {merge(B, C, s, o4) : o4 \in RangeOrders(C)}}

\* inFirst, inSecond and a third map merged under inStrategy, grouped to
\* the left and to the right.
DoMergeThree ==
    /\ out.op = "none"
    /\ \E third \in MergeArgs :
          out' \in {[op |-> "merge3", third |-> third, left |-> l, right |-> r] :
                       l \in LeftChains(inFirst, inSecond, third, inStrategy),
                       r \in RightChains(inFirst, inSecond, third, inStrategy)}
    /\ UNCHANGED <<inFirst, inSecond, inStrategy>>
    /\ UNCHANGED notPure

\* Mutant of DoClose: the comparison result is merged under Keep.
DoCloseKeeps ==
    /\ out.op = "none"
    /\ \E d \in {Compare(inFirst, inSecond)} :
          \E r \in {merge(inFirst, d, Keep, ord) : ord \in RangeOrders(d)} :
             \E pool \in {IF r.err = NoError THEN r.res ELSE inFirst} :
                out' = [op |-> "close", diff |-> d, err |-> r.err, pool |-> pool,
                        after |-> Compare(pool, inSecond)]
    /\ UNCHANGED <<inFirst, inSecond, inStrategy>>
    /\ UNCHANGED notPure

\* p.Merge(p.Compare(q), inStrategy) followed by p.Compare(q), for pools p,
\* q of contents inFirst, inSecond.
DoClose ==
    /\ out.op = "none"
    /\ \E d \in {Compare(inFirst, inSecond)} :
          \E r \in {merge(inFirst, d, inStrategy, ord) : ord \in RangeOrders(d)} :
             \E pool \in {IF r.err = NoError THEN r.res ELSE inFirst} :
                out' = [op |-> "close", diff |-> d, err |-> r.err, pool |-> pool,
                        after |-> Compare(pool, inSecond)]
    /\ UNCHANGED <<inFirst, inSecond, inStrategy>>
    /\ UNCHANGED notPure

ChainNext == DoMergeThree \/ DoClose

ChainSpec == PureInit /\ [][ChainNext]_vars

\* ------------------------------------------------------------------------
\* The option resolver and the typed accessors of a section (type Params).
\* A string is the sequence of its characters, so that the validators and
\* the conversions are computed from the characters.
\* ------------------------------------------------------------------------
Digits == <<"0", "1", "2", "3", "4", "5", "6", "7", "8", "9">>

LowerLetters ==
    {"a", "b", "c", "d", "e", "f", "g", "h", "i", "j", "k", "l", "m",
     "n", "o", "p", "q", "r", "s", "t", "u", "v", "w", "x", "y", "z"}

IsDigit(c) == \E i \in 1..Len(Digits) : Digits[i] = c

DigitValue(c) == (CHOOSE i \in 1..Len(Digits) : Digits[i] = c) - 1

AllDigits(str) == \A i \in 1..Len(str) : IsDigit(str[i])

\* The number a sequence of digits spells in base 10.
RECURSIVE DecValue(_)
DecValue(str) ==
    IF str = <<>> THEN 0
    ELSE 10 * DecValue(SubSeq(str, 1, Len(str) - 1)) + DigitValue(str[Len(str)])

\* The values a key holds and the defaults given, as written in a section.
Literals ==
    {<<>>,
     <<"7">>,
     <<"0">>,
     <<"-", "3">>,
     <<"1", "2", ".", "5">>,
     <<"a">>,
     <<"o", "n">>,
     <<"5", "m", "s">>,
     <<"a", ",", "b">>,
     <<"2", "0", "2", "4", "-", "0", "2", "-", "2", "9", "T",
       "1", "0", ":", "3", "0", ":", "0", "0", "Z">>}

Defaults == {<<>>, <<"7">>, <<"1", "2", ".", "5">>}

\* The error values.
NoKeyError(key) == <<"NoKeyError", key>>
RegExpValidationError(key) == <<"RegExpValidationError", key>>
EnumValidationError(key) == <<"EnumValidationError", key>>
ConversionError(key, value, datatype) == <<"ConversionError", key, value, datatype>>

\* The error of the test suite's validation function.
notABCError == <<"not a,b,c">>

\* Regular expressions, named by their pattern; NoRegExp is the nil pointer.
NoRegExp == "nil"
integralRegExp == "^[0-9]*$"
lowerRegExp == "^[a-z]+$"

\* regex.MatchString(value)
MatchString(regex, value) ==
    IF regex = integralRegExp THEN AllDigits(value)
    ELSE Len(value) >= 1 /\ \A i \in 1..Len(value) : value[i] \in LowerLetters

\* Validation functions; NoFunc is the nil function.
NoFunc == [kind |-> "nil"]
validateABC == [kind |-> "validateABC"]
EnumFunc(values) == [kind |-> "enum", values |-> values]

\* validateFunc(key, value): the error it returns.
CallValidateFunc(fn, key, value) ==
    IF fn.kind = "validateABC"
    THEN IF value \in {<<"a">>, <<"b">>, <<"c">>} THEN NoError ELSE notABCError
    ELSE IF Len(fn.values) = 0 THEN NoError
    ELSE IF \E i \in 1..Len(fn.values) : fn.values[i] = value THEN NoError
    ELSE EnumValidationError(key)

\* The option constructors: each returns the change it makes to an option.
Default(val) == [set |-> "defaultValue", to |-> val]
Require == [set |-> "require", to |-> TRUE]
ValidateRegExp(regex) == [set |-> "validateRegExp", to |-> regex]
ValidateIntegral == [set |-> "validateRegExp", to |-> integralRegExp]
ValidateFunc(fn) == [set |-> "validateFunc", to |-> fn]
ValidateEnum(values) == [set |-> "validateFunc", to |-> EnumFunc(values)]

\* var opt option
ZeroOption ==
    [defaultValue |-> <<>>, validateRegExp |-> NoRegExp, validateFunc |-> NoFunc,
     require |-> FALSE]

\* o(&opt)
ApplyOption(o, opt) ==
    IF o.set = "defaultValue" THEN [opt EXCEPT !.defaultValue = o.to]
    ELSE IF o.set = "require" THEN [opt EXCEPT !.require = o.to]
    ELSE IF o.set = "validateRegExp" THEN [opt EXCEPT !.validateRegExp = o.to]
    ELSE [opt EXCEPT !.validateFunc = o.to]

\* for _, o := range options { o(&opt) }
RECURSIVE ApplyOptions(_)
ApplyOptions(options) ==
    IF options = <<>> THEN ZeroOption
    ELSE ApplyOption(options[Len(options)],
                     ApplyOptions(SubSeq(options, 1, Len(options) - 1)))

Result(value, err) == [value |-> value, err |-> err]

\* Mutant of Check: the default is tried before Require is looked at.
RECURSIVE CheckDefaultFirst(_, _, _, _)
CheckDefaultFirst(key, value, ok, opt) ==
    IF ~ok /\ opt.defaultValue # <<>> THEN CheckDefaultFirst(key, opt.defaultValue, TRUE, opt)
    ELSE IF ~ok /\ opt.require THEN Result(<<>>, NoKeyError(key))
    ELSE IF ~ok THEN Result(<<>>, NoError)
    ELSE IF opt.validateRegExp # NoRegExp
    THEN IF MatchString(opt.validateRegExp, value)
         THEN Result(value, NoError)
         ELSE Result(<<>>, RegExpValidationError(key))
    ELSE IF opt.validateFunc # NoFunc
    THEN IF CallValidateFunc(opt.validateFunc, key, value) = NoError
         THEN Result(value, NoError)
         ELSE Result(<<>>, CallValidateFunc(opt.validateFunc, key, value))
    ELSE Result(value, NoError)

\* Mutant of Check: a substituted default is returned without validation.
RECURSIVE CheckDefaultUnvalidated(_, _, _, _)
CheckDefaultUnvalidated(key, value, ok, opt) ==
    IF ~ok /\ opt.require THEN Result(<<>>, NoKeyError(key))
    ELSE IF ~ok /\ opt.defaultValue # <<>> THEN Result(opt.defaultValue, NoError)
    ELSE IF ~ok THEN Result(<<>>, NoError)
    ELSE IF opt.validateRegExp # NoRegExp
    THEN IF MatchString(opt.validateRegExp, value)
         THEN Result(value, NoError)
         ELSE Result(<<>>, RegExpValidationError(key))
    ELSE IF opt.validateFunc # NoFunc
    THEN IF CallValidateFunc(opt.validateFunc, key, value) = NoError
         THEN Result(value, NoError)
         ELSE Result(<<>>, CallValidateFunc(opt.validateFunc, key, value))
    ELSE Result(value, NoError)

\* Mutant of Check: the validators are run on an empty value as well.
RECURSIVE CheckValidatesEmpty(_, _, _, _)
CheckValidatesEmpty(key, value, ok, opt) ==
    IF ~ok /\ opt.require THEN Result(<<>>, NoKeyError(key))
    ELSE IF ~ok /\ opt.defaultValue # <<>> THEN CheckValidatesEmpty(key, opt.defaultValue, TRUE, opt)
    ELSE IF opt.validateRegExp # NoRegExp
    THEN IF MatchString(opt.validateRegExp, value)
         THEN Result(value, NoError)
         ELSE Result(<<>>, RegExpValidationError(key))
    ELSE IF opt.validateFunc # NoFunc
    THEN IF CallValidateFunc(opt.validateFunc, key, value) = NoError
         THEN Result(value, NoError)
         ELSE Result(<<>>, CallValidateFunc(opt.validateFunc, key, value))
    ELSE Result(value, NoError)

\* Mutant of Check: the validation function is consulted before the regular
\* expression.
RECURSIVE CheckFuncFirst(_, _, _, _)
CheckFuncFirst(key, value, ok, opt) ==
    IF ~ok /\ opt.require THEN Result(<<>>, NoKeyError(key))
    ELSE IF ~ok /\ opt.defaultValue # <<>> THEN CheckFuncFirst(key, opt.defaultValue, TRUE, opt)
    ELSE IF ~ok THEN Result(<<>>, NoError)
    ELSE IF opt.validateFunc # NoFunc
    THEN IF CallValidateFunc(opt.validateFunc, key, value) = NoError
         THEN Result(value, NoError)
         ELSE Result(<<>>, CallValidateFunc(opt.validateFunc, key, value))
    ELSE IF opt.validateRegExp # NoRegExp
    THEN IF MatchString(opt.validateRegExp, value)
         THEN Result(value, NoError)
         ELSE Result(<<>>, RegExpValidationError(key))
    ELSE Result(value, NoError)

\* The switch at the label check, and the return that follows it; goto check
\* is the recursive call.
RECURSIVE Check(_, _, _, _)
Check(key, value, ok, opt) ==
    IF ~ok /\ opt.require THEN Result(<<>>, NoKeyError(key))
    ELSE IF ~ok /\ opt.defaultValue # <<>> THEN Check(key, opt.defaultValue, TRUE, opt)
    ELSE IF ~ok THEN Result(<<>>, NoError)
    ELSE IF opt.validateRegExp # NoRegExp
    THEN IF MatchString(opt.validateRegExp, value)
         THEN Result(value, NoError)
         ELSE Result(<<>>, RegExpValidationError(key))
    ELSE IF opt.validateFunc # NoFunc
    THEN IF CallValidateFunc(opt.validateFunc, key, value) = NoError
         THEN Result(value, NoError)
         ELSE Result(<<>>, CallValidateFunc(opt.validateFunc, key, value))
    ELSE Result(value, NoError)

\* checkApplyOptions(key, value, ok, options...)
checkApplyOptions(key, value, ok, options) ==
    Check(key, value, IF value = <<>> THEN FALSE ELSE ok, ApplyOptions(options))

\* val, ok := s[key]: the zero value for a key the section does not have.
Lookup(sec, key) ==
    IF key \in DOMAIN sec THEN [val |-> sec[key], ok |-> TRUE]
    ELSE [val |-> <<>>, ok |-> FALSE]

\* s.String(key, options...)
ParamsString(sec, key, options) ==
    checkApplyOptions(key, Lookup(sec, key).val, Lookup(sec, key).ok, options)

\* ------------------------------------------------------------------------
\* The conversions of the typed accessors, each [ok, val] computed from the
\* characters for the literal forms the model draws: decimal integers,
\* decimal fractions, durations of one number and unit, RFC3339 timestamps
\* in UTC.
\* ------------------------------------------------------------------------
Signed(str) == Len(str) >= 1 /\ str[1] \in {"+", "-"}

Unsigned(str) == IF Signed(str) THEN Tail(str) ELSE str

Sign(str) == IF Len(str) >= 1 /\ str[1] = "-" THEN -1 ELSE 1

\* The longest prefix of str made of digits.
RECURSIVE DigitPrefix(_)
DigitPrefix(str) ==
    IF str = <<>> \/ ~IsDigit(str[1]) THEN <<>>
    ELSE <<str[1]>> \o DigitPrefix(Tail(str))

\* Mutant of Atoi: the digits before the first other character are converted.
AtoiTruncating(str) ==
    IF Len(DigitPrefix(Unsigned(str))) >= 1
    THEN [ok |-> TRUE, val |-> Sign(str) * DecValue(DigitPrefix(Unsigned(str)))]
    ELSE [ok |-> FALSE, val |-> 0]

\* Mutant of Atoi: the empty string converts to 0.
AtoiOfEmpty(str) ==
    IF AllDigits(Unsigned(str))
    THEN [ok |-> TRUE, val |-> Sign(str) * DecValue(Unsigned(str))]
    ELSE [ok |-> FALSE, val |-> 0]

\* strconv.Atoi(str): an optional sign and one or more digits.
Atoi(str) ==
    IF Len(Unsigned(str)) >= 1 /\ AllDigits(Unsigned(str))
    THEN [ok |-> TRUE, val |-> Sign(str) * DecValue(Unsigned(str))]
    ELSE [ok |-> FALSE, val |-> 0]

\* A decimal fraction mant * 10^exp without trailing zeros.
RECURSIVE Decimal(_, _)
Decimal(mant, exp) ==
    IF mant = 0 THEN [mant |-> 0, exp |-> 0]
    ELSE IF exp < 0 /\ mant % 10 = 0 THEN Decimal(mant \div 10, exp + 1)
    ELSE [mant |-> mant, exp |-> exp]

\* strconv.ParseFloat(str, 64): an optional sign, digits, and at most one
\* point, with a digit before or after it.
ParseFloat(str) ==
    LET body == Unsigned(str)
        dots == {i \in 1..Len(body) : body[i] = "."}
        dot == IF dots = {} THEN Len(body) + 1 ELSE CHOOSE i \in dots : TRUE
        whole == SubSeq(body, 1, dot - 1)
        frac == SubSeq(body, dot + 1, Len(body))
    IN IF /\ Cardinality(dots) <= 1
          /\ AllDigits(whole)
          /\ AllDigits(frac)
          /\ Len(whole) + Len(frac) >= 1
       THEN [ok |-> TRUE, val |-> Decimal(Sign(str) * DecValue(whole \o frac), -Len(frac))]
       ELSE [ok |-> FALSE, val |-> Decimal(0, 0)]

\* The units of a duration, in nanoseconds.
UnitNanos(unit) ==
    IF unit = <<"n", "s">> THEN 1
    ELSE IF unit = <<"u", "s">> THEN 1000
    ELSE IF unit = <<"m", "s">> THEN 1000000
    ELSE 0

\* time.ParseDuration(str), in nanoseconds: an optional sign and then "0",
\* or a number and one of the units ns, us, ms.
ParseDuration(str) ==
    LET body == Unsigned(str)
        number == DigitPrefix(body)
        unit == SubSeq(body, Len(number) + 1, Len(body))
    IN IF body = <<"0">> THEN [ok |-> TRUE, val |-> 0]
       ELSE IF Len(number) >= 1 /\ UnitNanos(unit) > 0
       THEN [ok |-> TRUE, val |-> Sign(str) * DecValue(number) * UnitNanos(unit)]
       ELSE [ok |-> FALSE, val |-> 0]

\* time.RFC3339
RFC3339 == "2006-01-02T15:04:05Z07:00"

\* time.Time{}
ZeroTime == [year |-> 1, month |-> 1, day |-> 1, hour |-> 0, minute |-> 0, second |-> 0]

DaysIn(year, month) ==
    IF month = 2
    THEN IF (year % 4 = 0 /\ year % 100 # 0) \/ year % 400 = 0 THEN 29 ELSE 28
    ELSE IF month \in {4, 6, 9, 11} THEN 30 ELSE 31

\* time.Parse(layout, str) for the layout time.RFC3339 and a timestamp
\* yyyy-mm-ddThh:mm:ssZ.
ParseTime(layout, str) ==
    LET shaped ==
            /\ layout = RFC3339
            /\ Len(str) = 20
            /\ \A i \in {1, 2, 3, 4, 6, 7, 9, 10, 12, 13, 15, 16, 18, 19} : IsDigit(str[i])
            /\ str[5] = "-" /\ str[8] = "-" /\ str[11] = "T"
            /\ str[14] = ":" /\ str[17] = ":" /\ str[20] = "Z"
        t == [year |-> DecValue(SubSeq(str, 1, 4)),
              month |-> DecValue(SubSeq(str, 6, 7)),
              day |-> DecValue(SubSeq(str, 9, 10)),
              hour |-> DecValue(SubSeq(str, 12, 13)),
              minute |-> DecValue(SubSeq(str, 15, 16)),
              second |-> DecValue(SubSeq(str, 18, 19))]
    IN IF /\ shaped
          /\ t.month \in 1..12
          /\ t.day \in 1..DaysIn(t.year, t.month)
          /\ t.hour < 24 /\ t.minute < 60 /\ t.second < 60
       THEN [ok |-> TRUE, val |-> t]
       ELSE [ok |-> FALSE, val |-> ZeroTime]

\* strings.Split(str, sep) for a separator of one character, and for the
\* empty separator, which splits after each character.
RECURSIVE Split(_, _)
Split(str, sep) ==
    IF sep = <<>> THEN [i \in 1..Len(str) |-> <<str[i]>>]
    ELSE IF \A i \in 1..Len(str) : str[i] # sep[1] THEN <<str>>
    ELSE LET at == CHOOSE i \in 1..Len(str) :
                       str[i] = sep[1] /\ \A j \in 1..(i - 1) : str[j] # sep[1]
         IN <<SubSeq(str, 1, at - 1)>> \o Split(SubSeq(str, at + 1, Len(str)), sep)

\* The words Bool reads as true and as false.
TrueWords ==
    {<<"t">>, <<"t", "r", "u", "e">>, <<"y">>, <<"y", "e", "s">>, <<"o", "n">>, <<"1">>}

FalseWords ==
    {<<"f">>, <<"f", "a", "l", "s", "e">>, <<"n">>, <<"n", "o">>, <<"o", "f", "f">>, <<"0">>}

\* Mutant of Typed: the conversion is tried on a failed or empty resolution too.
TypedAlwaysConverts(r, key, conv, zero, datatype) ==
    IF conv.ok THEN Result(conv.val, NoError)
    ELSE Result(zero, ConversionError(key, r.value, datatype))

\* What a typed accessor returns for the resolved string r and its conversion
\* conv: the zero value with the resolver's error (or nil) when the resolver
\* failed or returned the empty string, else the converted value or a
\* ConversionError.
Typed(r, key, conv, zero, datatype) ==
    IF r.err # NoError \/ r.value = <<>> THEN Result(zero, r.err)
    ELSE IF conv.ok THEN Result(conv.val, NoError)
    ELSE Result(zero, ConversionError(key, r.value, datatype))

\* s.Strings(key, separator, options...)
ParamsStrings(sec, key, separator, options) ==
    LET r == ParamsString(sec, key, options)
    IN IF r.err # NoError \/ r.value = <<>> THEN Result(<<>>, r.err)
       ELSE Result(Split(r.value, separator), NoError)

\* s.Int(key, options...)
ParamsInt(sec, key, options) ==
    LET r == ParamsString(sec, key, options)
    IN Typed(r, key, Atoi(r.value), 0, "int")

\* s.Float(key, options...)
ParamsFloat(sec, key, options) ==
    LET r == ParamsString(sec, key, options)
    IN Typed(r, key, ParseFloat(r.value), Decimal(0, 0), "float64")

\* s.Bool(key, options...)
ParamsBool(sec, key, options) ==
    LET r == ParamsString(sec, key, options)
    IN Typed(r, key,
             [ok |-> r.value \in TrueWords \cup FalseWords, val |-> r.value \in TrueWords],
             FALSE, "bool")

\* s.Duration(key, options...)
ParamsDuration(sec, key, options) ==
    LET r == ParamsString(sec, key, options)
    IN Typed(r, key, ParseDuration(r.value), 0, "Duration")

\* s.Time(key, format, options...)
ParamsTime(sec, key, format, options) ==
    LET r == ParamsString(sec, key, options)
    IN Typed(r, key, ParseTime(IF format = "" THEN RFC3339 ELSE format, r.value),
             ZeroTime, "Time")

\* ------------------------------------------------------------------------
\* A section, the options of one access to it, and the access: the section
\* and the options are drawn at the start, and an action calls one accessor.
\* ------------------------------------------------------------------------

\* The largest number of options passed to an accessor.
MaxOptions == 3

OptionChoices ==
    {Require, ValidateIntegral, ValidateRegExp(lowerRegExp), ValidateFunc(validateABC),
     ValidateEnum(<< <<"7">>, <<"o", "n">> >>)}
    \cup {Default(val) : val \in Defaults}

OptionLists == UNION {[1..n -> OptionChoices] : n \in 0..MaxOptions}

\* The sections accessed: without keys, or with the key "host".
ParamsValues == {EmptyMap} \cup {[key \in {"host"} |-> val] : val \in Literals}

Separators == {<<>>, <<",">>}

TimeFormats == {"", RFC3339}

ParamsInit ==
    /\ secParams \in ParamsValues
    /\ optList \in OptionLists
    /\ ret = [op |-> "none"]
    /\ StoreIdle
    /\ PureIdle
    /\ PrintIdle
    /\ ThreadsIdle
    /\ TwoPoolsIdle
    /\ HooksIdle

Returned(op, key, res) == [op |-> op, key |-> key, value |-> res.value, err |-> res.err]

DoString(key) ==
    /\ ret.op = "none"
    /\ ret' = Returned("String", key, ParamsString(secParams, key, optList))
    /\ UNCHANGED <<secParams, optList>>
    /\ UNCHANGED notParam

DoStrings(key, separator) ==
    /\ ret.op = "none"
    /\ ret' = Returned("Strings", key, ParamsStrings(secParams, key, separator, optList))
    /\ UNCHANGED <<secParams, optList>>
    /\ UNCHANGED notParam

DoInt(key) ==
    /\ ret.op = "none"
    /\ ret' = Returned("Int", key, ParamsInt(secParams, key, optList))
    /\ UNCHANGED <<secParams, optList>>
    /\ UNCHANGED notParam

DoFloat(key) ==
    /\ ret.op = "none"
    /\ ret' = Returned("Float", key, ParamsFloat(secParams, key, optList))
    /\ UNCHANGED <<secParams, optList>>
    /\ UNCHANGED notParam

DoBool(key) ==
    /\ ret.op = "none"
    /\ ret' = Returned("Bool", key, ParamsBool(secParams, key, optList))
    /\ UNCHANGED <<secParams, optList>>
    /\ UNCHANGED notParam

DoDuration(key) ==
    /\ ret.op = "none"
    /\ ret' = Returned("Duration", key, ParamsDuration(secParams, key, optList))
    /\ UNCHANGED <<secParams, optList>>
    /\ UNCHANGED notParam

DoTime(key, format) ==
    /\ ret.op = "none"
    /\ ret' = Returned("Time", key, ParamsTime(secParams, key, format, optList))
    /\ UNCHANGED <<secParams, optList>>
    /\ UNCHANGED notParam

ParamsNext ==
    \/ \E key \in Keys : DoString(key)
    \/ \E key \in Keys, separator \in Separators : DoStrings(key, separator)
    \/ \E key \in Keys : DoInt(key)
    \/ \E key \in Keys : DoFloat(key)
    \/ \E key \in Keys : DoBool(key)
    \/ \E key \in Keys : DoDuration(key)
    \/ \E key \in Keys, format \in TimeFormats : DoTime(key, format)

ParamsSpec == ParamsInit /\ [][ParamsNext]_vars

\* ------------------------------------------------------------------------
\* MustPrettyPrint.  Section names, keys, values and the indentation are
\* sequences of characters, none of them a newline.
\* ------------------------------------------------------------------------

\* The characters of the printer's universe in ascending byte order.
ByteOrder == <<"\n", " ", "2", ":", "[", "]", "a", "b", "k", "x">>

ByteRank(c) == CHOOSE i \in 1..Len(ByteOrder) : ByteOrder[i] = c

\* a < b on strings: the byte-wise order sort.Strings uses.
RECURSIVE StrLess(_, _)
StrLess(a, b) ==
    IF b = <<>> THEN FALSE
    ELSE IF a = <<>> THEN TRUE
    ELSE IF a[1] = b[1] THEN StrLess(Tail(a), Tail(b))
    ELSE ByteRank(a[1]) < ByteRank(b[1])

\* sorted with str put before its first element that is not less than str.
RECURSIVE Insert(_, _)
Insert(sorted, str) ==
    IF sorted = <<>> THEN <<str>>
    ELSE IF StrLess(sorted[1], str) THEN <<sorted[1]>> \o Insert(Tail(sorted), str)
    ELSE <<str>> \o sorted

\* Mutant of SortStrings: the strings stay in the order of the range loop.
SortStringsNot(strs) == strs

\* sort.Strings(strs)
RECURSIVE SortStrings(_)
SortStrings(strs) ==
    IF strs = <<>> THEN <<>>
    ELSE Insert(SortStrings(SubSeq(strs, 1, Len(strs) - 1)), strs[Len(strs)])

\* strings.Trim(str, c) for a cutset of the one character c.
RECURSIVE Trim(_, _)
Trim(str, c) ==
    IF str = <<>> THEN str
    ELSE IF str[1] = c THEN Trim(Tail(str), c)
    ELSE IF str[Len(str)] = c THEN Trim(SubSeq(str, 1, Len(str) - 1), c)
    ELSE str

\* The loop over the sorted keys of a section: one writeString per key.
RECURSIVE WriteKeys(_, _, _, _)
WriteKeys(text, kv, indent, keys) ==
    IF keys = <<>> THEN text
    ELSE WriteKeys(text \o indent \o keys[1] \o <<":", " ">> \o kv[keys[1]] \o <<"\n">>,
                   kv, indent, Tail(keys))

\* The loop over the sorted sections; ord holds the order in which the range
\* loop over each section's keys runs.
RECURSIVE WriteSections(_, _, _, _, _)
WriteSections(text, pool, indent, sections, ord) ==
    IF sections = <<>> THEN text
    ELSE WriteSections(
             WriteKeys(text \o <<"\n", "[">> \o sections[1] \o <<"]", "\n">>,
                       pool[sections[1]], indent, SortStrings(ord.keys[sections[1]])),
             pool, indent, Tail(sections), ord)

\* MustPrettyPrint(pool, indent), the range loops running in the order ord.
MustPrettyPrint(pool, indent, ord) ==
    Trim(WriteSections(<<>>, pool, indent, SortStrings(ord.secs), ord), "\n")

PrintNames == {<<"a">>, <<"a", "b">>, <<"b">>}
PrintKeys == {<<"k">>, <<"k", "2">>}
PrintValues == {<<>>, <<"x">>}
Indents == {<<>>, <<" ", " ">>}

\* The pools printed.
PrintPools ==
    UNION {[S -> UNION {[K -> PrintValues] : K \in SUBSET PrintKeys}] : S \in SUBSET PrintNames}

PrintInit ==
    /\ ppPool \in PrintPools
    /\ ppIndent \in Indents
    /\ ppOut = [done |-> FALSE, text |-> <<>>]
    /\ StoreIdle
    /\ PureIdle
    /\ ParamsIdle
    /\ ThreadsIdle
    /\ TwoPoolsIdle
    /\ HooksIdle

\* text := MustPrettyPrint(ppPool, ppIndent)
DoPrettyPrint ==
    /\ ~ppOut.done
    /\ \E ord \in RangeOrders(ppPool) :
          ppOut' = [done |-> TRUE, text |-> MustPrettyPrint(ppPool, ppIndent, ord)]
    /\ UNCHANGED <<ppPool, ppIndent>>
    /\ UNCHANGED notPrint

PrintNext == DoPrettyPrint

PrintSpec == PrintInit /\ [][PrintNext]_vars

\* ------------------------------------------------------------------------
\* Concurrent calls on one pool.  Each thread makes one call; a call is
\* p.mu.Lock(), the reads and writes of p.params its body makes, one step
\* each, and the deferred p.mu.Unlock().  The pool is held by its contents.
\* ------------------------------------------------------------------------
Threads == {"t1", "t2"}

\* The pools the threads start on.
ThreadPools ==
    {EmptyMap,
     [name \in {"db"} |-> [key \in {"host"} |-> "x"]],
     [name \in {"db", "log"} |->
         IF name = "db" THEN [key \in {"host", "port"} |-> ""] ELSE EmptyMap]}

\* The pool of its own a caller passes to Compare.
OtherPool == [name \in {"log"} |-> [key \in {"port"} |-> "x"]]

\* The maps the threads pass to Merge: two of them hold the same section and
\* key with different values.
ThreadMergeArgs == MergeArgs \cup {[sec \in {"db"} |-> [key \in {"host"} |-> ""]]}

Task(op, section, key, value, arg) ==
    [op |-> op, section |-> section, key |-> key, value |-> value, arg |-> arg]

\* The calls a thread can make.
Tasks ==
    {Task("Raw", "", "", "", EmptyMap)}
    \cup {Task("Params", name, "", "", EmptyMap) : name \in Sections}
    \cup {Task("Get", section, key, "", EmptyMap) : section \in Sections, key \in Keys}
    \cup {Task("Set", section, key, value, EmptyMap) :
             section \in Sections, key \in Keys, value \in Values}
    \cup {Task("Unset", section, key, "", EmptyMap) :
             section \in Sections, key \in Keys \cup {""}}
    \cup {Task("Merge", "", "", strategy, c) : strategy \in Strategies, c \in ThreadMergeArgs}
    \cup {Task("Compare", "", "", "", c) : c \in {EmptyMap, OtherPool}}

\* The first step of a call's body.
Entry(op) ==
    IF op = "Raw" THEN "raw_copy"
    ELSE IF op = "Params" THEN "params_lookup"
    ELSE IF op = "Get" THEN "get_section"
    ELSE IF op = "Set" THEN "set_section"
    ELSE IF op = "Unset" THEN "unset_section"
    ELSE IF op = "Merge" THEN "merge_compute"
    ELSE "compare_diff"

NotReturned == [done |-> FALSE, value |-> EmptyMap, ok |-> FALSE, err |-> NoError]

ThreadsInit ==
    /\ pmap \in ThreadPools
    /\ mu = Free
    /\ pc = [t \in Threads |-> "lock"]
    /\ task \in [Threads -> Tasks]
    /\ seen = [t \in Threads |-> [snap |-> EmptyMap, loc |-> EmptyMap, at |-> EmptyMap]]
    /\ access = [thread |-> "none", kind |-> "none"]
    /\ retval = [t \in Threads |-> NotReturned]
    /\ StoreIdle
    /\ PureIdle
    /\ ParamsIdle
    /\ PrintIdle
    /\ TwoPoolsIdle
    /\ HooksIdle

\* The step of thread t that touches p.params as kind says and goes to label.
Step(t, kind, label) ==
    /\ access' = [thread |-> t, kind |-> kind]
    /\ pc' = [pc EXCEPT ![t] = label]
    /\ UNCHANGED <<mu, task>>
    /\ UNCHANGED notThreads

\* The return of thread t's call; the deferred Unlock is still to run.
Return(t, value, ok, err) ==
    retval' = [retval EXCEPT ![t] = [done |-> TRUE, value |-> value, ok |-> ok, err |-> err]]

\* The write of w to p.params by thread t.
Write(t, w) ==
    /\ pmap' = w
    /\ seen' = [seen EXCEPT ![t].snap = w]

\* Mutant of Lock: the mutex is taken without waiting for it.
LockBarging(t) ==
    /\ pc[t] = "lock"
    /\ mu' = t
    /\ pc' = [pc EXCEPT ![t] = Entry(task[t].op)]
    /\ seen' = [seen EXCEPT ![t].snap = pmap, ![t].at = pmap]
    /\ access' = [thread |-> t, kind |-> "none"]
    /\ UNCHANGED <<pmap, task, retval>>
    /\ UNCHANGED notThreads

\* p.mu.Lock(): waits until the mutex is free.
Lock(t) ==
    /\ pc[t] = "lock"
    /\ mu = Free
    /\ mu' = t
    /\ pc' = [pc EXCEPT ![t] = Entry(task[t].op)]
    /\ seen' = [seen EXCEPT ![t].snap = pmap, ![t].at = pmap]
    /\ access' = [thread |-> t, kind |-> "none"]
    /\ UNCHANGED <<pmap, task, retval>>
    /\ UNCHANGED notThreads

\* Mutant of Unlock: a call that returns an error keeps the mutex.
UnlockOnSuccess(t) ==
    /\ pc[t] = "unlock"
    /\ mu' = (IF retval[t].err # NoError THEN mu ELSE Free)
    /\ pc' = [pc EXCEPT ![t] = "done"]
    /\ access' = [thread |-> t, kind |-> "none"]
    /\ UNCHANGED <<pmap, task, seen, retval>>
    /\ UNCHANGED notThreads

\* The deferred p.mu.Unlock().
Unlock(t) ==
    /\ pc[t] = "unlock"
    /\ mu' = Free
    /\ pc' = [pc EXCEPT ![t] = "done"]
    /\ access' = [thread |-> t, kind |-> "none"]
    /\ UNCHANGED <<pmap, task, seen, retval>>
    /\ UNCHANGED notThreads

\* Raw: one turn of the loop that copies p.params into myPool.
RawCopy(t) ==
    /\ pc[t] = "raw_copy"
    /\ \E name \in DOMAIN pmap \ DOMAIN seen[t].loc :
          seen' = [seen EXCEPT ![t].loc = Put(@, name, pmap[name])]
    /\ Step(t, "read", "raw_copy")
    /\ UNCHANGED <<pmap, retval>>

\* Raw: the loop has ended; return p.params.
RawReturn(t) ==
    /\ pc[t] = "raw_copy"
    /\ DOMAIN pmap \subseteq DOMAIN seen[t].loc
    /\ Return(t, pmap, TRUE, NoError)
    /\ Step(t, "read", "unlock")
    /\ UNCHANGED <<pmap, seen>>

\* Params: params, ok := p.params[name]
ParamsLookup(t) ==
    /\ pc[t] = "params_lookup"
    /\ IF task[t].section \in DOMAIN pmap
       THEN /\ seen' = [seen EXCEPT ![t].loc = pmap[task[t].section]]
            /\ Step(t, "read", "params_fill")
            /\ UNCHANGED retval
       ELSE /\ Return(t, EmptyMap, FALSE, NoError)
            /\ Step(t, "read", "unlock")
            /\ UNCHANGED seen
    /\ UNCHANGED pmap

\* Params: the loop that copies the section found, and the return.
ParamsFill(t) ==
    /\ pc[t] = "params_fill"
    /\ Return(t, IF task[t].section \in DOMAIN pmap THEN pmap[task[t].section]
                 ELSE seen[t].loc, TRUE, NoError)
    /\ Step(t, "read", "unlock")
    /\ UNCHANGED <<pmap, seen>>

\* Get: sec, ok := p.params[section]
GetSection(t) ==
    /\ pc[t] = "get_section"
    /\ IF task[t].section \in DOMAIN pmap
       THEN /\ seen' = [seen EXCEPT ![t].loc = pmap[task[t].section]]
            /\ Step(t, "read", "get_key")
            /\ UNCHANGED retval
       ELSE /\ Return(t, "", FALSE, NoError)
            /\ Step(t, "read", "unlock")
            /\ UNCHANGED seen
    /\ UNCHANGED pmap

\* The section a thread has looked up, as it is now.
Section(t) ==
    IF task[t].section \in DOMAIN pmap THEN pmap[task[t].section] ELSE seen[t].loc

\* Get: value, ok = sec[key]
GetKey(t) ==
    /\ pc[t] = "get_key"
    /\ IF task[t].key \in DOMAIN Section(t)
       THEN Return(t, Section(t)[task[t].key], TRUE, NoError)
       ELSE Return(t, "", FALSE, NoError)
    /\ Step(t, "read", "unlock")
    /\ UNCHANGED <<pmap, seen>>

\* Set: sec, ok := p.params[section]
SetSection(t) ==
    /\ pc[t] = "set_section"
    /\ IF task[t].section \in DOMAIN pmap
       THEN /\ seen' = [seen EXCEPT ![t].loc = pmap[task[t].section]]
            /\ Step(t, "read", "set_put")
            /\ UNCHANGED retval
       ELSE /\ Return(t, "", FALSE, <<task[t].section>>)
            /\ Step(t, "read", "unlock")
            /\ UNCHANGED seen
    /\ UNCHANGED pmap

\* Set: sec[key] = value
SetPut(t) ==
    /\ pc[t] = "set_put"
    /\ Write(t, IF task[t].section \in DOMAIN pmap
                THEN Put(pmap, task[t].section, Put(pmap[task[t].section], task[t].key, task[t].value))
                ELSE pmap)
    /\ Return(t, "", TRUE, NoError)
    /\ Step(t, "write", "unlock")

\* Unset: sec, ok := p.params[section]
UnsetSection(t) ==
    /\ pc[t] = "unset_section"
    /\ IF task[t].section \in DOMAIN pmap
       THEN /\ seen' = [seen EXCEPT ![t].loc = pmap[task[t].section]]
            /\ Step(t, "read", IF task[t].key = "" THEN "unset_delete_section" ELSE "unset_key")
            /\ UNCHANGED retval
       ELSE /\ Return(t, "", FALSE, NoError)
            /\ Step(t, "read", "unlock")
            /\ UNCHANGED seen
    /\ UNCHANGED pmap

\* Unset: delete(p.params, section)
UnsetDeleteSection(t) ==
    /\ pc[t] = "unset_delete_section"
    /\ Write(t, Del(pmap, task[t].section))
    /\ Return(t, "", TRUE, NoError)
    /\ Step(t, "write", "unlock")

\* Unset: _, ok = sec[key]
UnsetKey(t) ==
    /\ pc[t] = "unset_key"
    /\ IF task[t].key \in DOMAIN Section(t)
       THEN /\ Step(t, "read", "unset_delete")
            /\ UNCHANGED retval
       ELSE /\ Return(t, "", FALSE, NoError)
            /\ Step(t, "read", "unlock")
    /\ UNCHANGED <<pmap, seen>>

\* Unset: delete(p.params[section], key)
UnsetDelete(t) ==
    /\ pc[t] = "unset_delete"
    /\ Write(t, IF task[t].section \in DOMAIN pmap
                THEN Put(pmap, task[t].section, Del(pmap[task[t].section], task[t].key))
                ELSE pmap)
    /\ Return(t, "", TRUE, NoError)
    /\ Step(t, "write", "unlock")

\* Mutant of MergeCompute: a merge that fails stores what it had built.
MergeComputeKeepsPartial(t) ==
    /\ pc[t] = "merge_compute"
    /\ \E ord \in RangeOrders(task[t].arg) :
          LET r == merge(pmap, task[t].arg, task[t].value, ord)
          IN IF r.err # NoError
             THEN /\ Return(t, "", FALSE, r.err)
                  /\ Step(t, "write", "unlock")
                  /\ Write(t, r.res)
             ELSE /\ seen' = [seen EXCEPT ![t].loc = r.res]
                  /\ Step(t, "read", "merge_assign")
                  /\ UNCHANGED <<retval, pmap>>

\* Merge: res, err := merge(p.params, params, strategy), and the return of
\* the error.
MergeCompute(t) ==
    /\ pc[t] = "merge_compute"
    /\ \E ord \in RangeOrders(task[t].arg) :
          LET r == merge(pmap, task[t].arg, task[t].value, ord)
          IN IF r.err # NoError
             THEN /\ Return(t, "", FALSE, r.err)
                  /\ Step(t, "read", "unlock")
                  /\ UNCHANGED seen
             ELSE /\ seen' = [seen EXCEPT ![t].loc = r.res]
                  /\ Step(t, "read", "merge_assign")
                  /\ UNCHANGED retval
    /\ UNCHANGED pmap

\* Merge: p.params = res
MergeAssign(t) ==
    /\ pc[t] = "merge_assign"
    /\ Write(t, seen[t].loc)
    /\ Return(t, "", TRUE, NoError)
    /\ Step(t, "write", "unlock")

\* Compare: return diff(pool.params, p.params), for pool the pool itself
\* (the empty argument) or a pool of the caller's own.
CompareDiff(t) ==
    /\ pc[t] = "compare_diff"
    /\ Return(t, diff(IF task[t].arg = EmptyMap THEN pmap ELSE task[t].arg, pmap), TRUE, NoError)
    /\ Step(t, "read", "unlock")
    /\ UNCHANGED <<pmap, seen>>

ThreadsNext ==
    \E t \in Threads :
        \/ Lock(t)
        \/ Unlock(t)
        \/ RawCopy(t)
        \/ RawReturn(t)
        \/ ParamsLookup(t)
        \/ ParamsFill(t)
        \/ GetSection(t)
        \/ GetKey(t)
        \/ SetSection(t)
        \/ SetPut(t)
        \/ UnsetSection(t)
        \/ UnsetDeleteSection(t)
        \/ UnsetKey(t)
        \/ UnsetDelete(t)
        \/ MergeCompute(t)
        \/ MergeAssign(t)
        \/ CompareDiff(t)

ThreadsSpec == ThreadsInit /\ [][ThreadsNext]_vars

\* A step of thread t.
StepOf(t) == ThreadsNext /\ access'.thread = t

\* The concurrent calls with every thread scheduled again and again: a
\* thread that can go on taking steps does take one.  A thread waiting in
\* p.mu.Lock() can take a step only while the mutex is free.
ThreadsFairSpec == ThreadsSpec /\ \A t \in Threads : WF_vars(StepOf(t))

\* ------------------------------------------------------------------------
\* p.Compare(q) beside a call on q.  Two pools, each with its own mutex; one
\* thread calls p.Compare(q), the other calls Set, Unset or Merge on q.
\* Compare takes p.mu only, so its reads of q.params are not ordered with
\* the other thread's writes: a read of a map that is being written gives
\* the map as it was, the map as it will be, or the runtime's fatal error.
\* ------------------------------------------------------------------------
Comparer == "comparer"
Changer == "changer"

\* The calls the second thread can make on q.
ChangerTasks == {tk \in Tasks : tk.op \in {"Set", "Unset", "Merge"}}

\* No map of q is being written.
NoWrite == [on |-> <<>>, to |-> EmptyMap]

\* The write of q.params (the outer map) or of one of its sections that
\* makes q's contents become "to".
MapWrite(on, to) == [on |-> on, to |-> to]

NoTouch == [thread |-> "none", pool |-> "none", kind |-> "none"]

Touch(thread, pool, kind) == [thread |-> thread, pool |-> pool, kind |-> kind]

TwoPoolsInit ==
    /\ pools \in [p : {EmptyMap, OtherPool}, q : ThreadPools]
    /\ mus = [p |-> Free, q |-> Free]
    /\ writing = NoWrite
    /\ cmp = [pc |-> "lock", live |-> FALSE, old |-> EmptyMap, visited |-> {},
              res |-> EmptyMap, done |-> FALSE]
    /\ \E tk \in ChangerTasks :
          chg = [pc |-> "lock", task |-> tk, next |-> NoWrite, ret |-> NotReturned]
    /\ touch = NoTouch
    /\ StoreIdle
    /\ PureIdle
    /\ ParamsIdle
    /\ PrintIdle
    /\ ThreadsIdle
    /\ HooksIdle

\* p.mu.Lock() in Compare.
CmpLock ==
    /\ cmp.pc = "lock"
    /\ mus.p = Free
    /\ mus' = [mus EXCEPT !.p = Comparer]
    /\ cmp' = [cmp EXCEPT !.pc = "load"]
    /\ touch' = Touch(Comparer, "p", "none")
    /\ UNCHANGED <<pools, writing, chg>>
    /\ UNCHANGED notTwoPools

\* Compare: pool.params is evaluated as the argument of diff.
CmpLoad ==
    /\ cmp.pc = "load"
    /\ cmp' = [cmp EXCEPT !.pc = "range", !.live = TRUE]
    /\ touch' = Touch(Comparer, "q", "read")
    /\ UNCHANGED <<pools, mus, writing, chg>>
    /\ UNCHANGED notTwoPools

\* The outer map diff ranges over, as the loop of diff may find it: the map
\* loaded, which is q.params unless a Merge has replaced it since; before or
\* after the write, when q.params is being written.
Views ==
    IF ~cmp.live THEN {cmp.old}
    ELSE IF writing.on = <<>> THEN {pools.q}
    ELSE {pools.q, writing.to}

\* The section sec of the map diff ranges over is read while it, or the
\* outer map, is being written.
ReadsDuringWrite(sec) ==
    /\ cmp.live
    /\ writing.on \in {<<"params">>, <<"params", sec>>}

\* diff: one turn of the loop over "first", for section sec found with the
\* keys and values c.
DiffTurn(res, sec, c, second) ==
    LET d == diff([name \in {sec} |-> c], second)
    IN IF sec \in DOMAIN d THEN Put(res, sec, d[sec]) ELSE res

\* Compare: one turn of diff's loop over pool.params.
CmpRange ==
    /\ cmp.pc = "range"
    /\ \E v \in Views :
          \E sec \in DOMAIN v \ cmp.visited :
             \/ cmp' = [cmp EXCEPT !.visited = @ \cup {sec},
                                   !.res = DiffTurn(@, sec, v[sec], pools.p)]
             \/ /\ ReadsDuringWrite(sec)
                /\ cmp' = [cmp EXCEPT !.pc = "fatal"]
    /\ touch' = Touch(Comparer, "q", "read")
    /\ UNCHANGED <<pools, mus, writing, chg>>
    /\ UNCHANGED notTwoPools

\* Compare: the loop of diff has ended; res is returned.
CmpReturn ==
    /\ cmp.pc = "range"
    /\ \E v \in Views : DOMAIN v \subseteq cmp.visited
    /\ cmp' = [cmp EXCEPT !.pc = "unlock", !.done = TRUE]
    /\ touch' = Touch(Comparer, "q", "read")
    /\ UNCHANGED <<pools, mus, writing, chg>>
    /\ UNCHANGED notTwoPools

\* The deferred p.mu.Unlock() of Compare.
CmpUnlock ==
    /\ cmp.pc = "unlock"
    /\ mus' = [mus EXCEPT !.p = Free]
    /\ cmp' = [cmp EXCEPT !.pc = "done"]
    /\ touch' = Touch(Comparer, "p", "none")
    /\ UNCHANGED <<pools, writing, chg>>
    /\ UNCHANGED notTwoPools

\* The program has stopped with "fatal error: concurrent map read and map
\* write" (or "... iteration and map write").
Crashed == cmp.pc = "fatal"

\* A step of the thread that calls q: it leaves the Compare call alone.
ChgStep(kind) ==
    /\ ~Crashed
    /\ touch' = Touch(Changer, "q", kind)
    /\ UNCHANGED notTwoPools

ChgReturn(ok, err) == [done |-> TRUE, value |-> "", ok |-> ok, err |-> err]

\* q.mu.Lock() in Set, Unset or Merge.
ChgLock ==
    /\ chg.pc = "lock"
    /\ mus.q = Free
    /\ mus' = [mus EXCEPT !.q = Changer]
    /\ chg' = [chg EXCEPT !.pc = IF chg.task.op = "Merge" THEN "merge" ELSE "lookup"]
    /\ ChgStep("none")
    /\ UNCHANGED <<pools, writing, cmp>>

\* Set: sec, ok := p.params[section] and the return of NoSectionError.
SetLookup(q, tk) ==
    IF tk.section \notin DOMAIN q
    THEN [pc |-> "unlock", next |-> NoWrite, ret |-> ChgReturn(FALSE, <<tk.section>>)]
    ELSE [pc |-> "write",
          next |-> MapWrite(<<"params", tk.section>>,
                            Put(q, tk.section, Put(q[tk.section], tk.key, tk.value))),
          ret |-> NotReturned]

\* Unset: the lookups of the section and of the key, and the returns of false.
UnsetLookup(q, tk) ==
    IF tk.section \notin DOMAIN q
    THEN [pc |-> "unlock", next |-> NoWrite, ret |-> ChgReturn(FALSE, NoError)]
    ELSE IF tk.key = ""
    THEN [pc |-> "write", next |-> MapWrite(<<"params">>, Del(q, tk.section)),
          ret |-> NotReturned]
    ELSE IF tk.key \notin DOMAIN q[tk.section]
    THEN [pc |-> "unlock", next |-> NoWrite, ret |-> ChgReturn(FALSE, NoError)]
    ELSE [pc |-> "write",
          next |-> MapWrite(<<"params", tk.section>>,
                            Put(q, tk.section, Del(q[tk.section], tk.key))),
          ret |-> NotReturned]

\* Set and Unset on q: the reads that come before the write.
ChgLookup ==
    /\ chg.pc = "lookup"
    /\ \E found \in {IF chg.task.op = "Set" THEN SetLookup(pools.q, chg.task)
                     ELSE UnsetLookup(pools.q, chg.task)} :
          chg' = [chg EXCEPT !.pc = found.pc, !.next = found.next, !.ret = found.ret]
    /\ ChgStep("read")
    /\ UNCHANGED <<pools, mus, writing, cmp>>

\* Set and Unset on q: the map assignment or delete starts.
ChgWriteBegin ==
    /\ chg.pc = "write"
    /\ writing' = chg.next
    /\ chg' = [chg EXCEPT !.pc = "writing"]
    /\ ChgStep("write")
    /\ UNCHANGED <<pools, mus, cmp>>

\* Set and Unset on q: the map assignment or delete is done, and the return.
ChgWriteEnd ==
    /\ chg.pc = "writing"
    /\ pools' = [pools EXCEPT !.q = writing.to]
    /\ writing' = NoWrite
    /\ chg' = [chg EXCEPT !.pc = "unlock", !.next = NoWrite, !.ret = ChgReturn(TRUE, NoError)]
    /\ ChgStep("write")
    /\ UNCHANGED <<mus, cmp>>

\* Merge on q: res, err := merge(p.params, params, strategy), and the
\* return of the error.
ChgMergeCompute ==
    /\ chg.pc = "merge"
    /\ \E ord \in RangeOrders(chg.task.arg) :
          \E r \in {merge(pools.q, chg.task.arg, chg.task.value, ord)} :
             chg' = IF r.err # NoError
                    THEN [chg EXCEPT !.pc = "unlock", !.ret = ChgReturn(FALSE, r.err)]
                    ELSE [chg EXCEPT !.pc = "assign", !.next = MapWrite(<<"field">>, r.res)]
    /\ ChgStep("read")
    /\ UNCHANGED <<pools, mus, writing, cmp>>

\* merge returned "first" itself: q.params stays the same map object.
MergeKeepsObject(q, arg) == DOMAIN q # {} /\ DOMAIN arg = {}

\* Merge on q: p.params = res.  A Compare that has loaded the map replaced
\* goes on ranging over that map.
ChgMergeAssign ==
    /\ chg.pc = "assign"
    /\ pools' = [pools EXCEPT !.q = chg.next.to]
    /\ cmp' = IF cmp.live /\ ~MergeKeepsObject(pools.q, chg.task.arg)
              THEN [cmp EXCEPT !.live = FALSE, !.old = pools.q]
              ELSE cmp
    /\ chg' = [chg EXCEPT !.pc = "unlock", !.next = NoWrite, !.ret = ChgReturn(TRUE, NoError)]
    /\ ChgStep("write")
    /\ UNCHANGED <<mus, writing>>

\* The deferred q.mu.Unlock().
ChgUnlock ==
    /\ chg.pc = "unlock"
    /\ mus' = [mus EXCEPT !.q = Free]
    /\ chg' = [chg EXCEPT !.pc = "done"]
    /\ ChgStep("none")
    /\ UNCHANGED <<pools, writing, cmp>>

TwoPoolsNext ==
    \/ CmpLock
    \/ CmpLoad
    \/ CmpRange
    \/ CmpReturn
    \/ CmpUnlock
    \/ ChgLock
    \/ ChgLookup
    \/ ChgWriteBegin
    \/ ChgWriteEnd
    \/ ChgMergeCompute
    \/ ChgMergeAssign
    \/ ChgUnlock

TwoPoolsSpec == TwoPoolsInit /\ [][TwoPoolsNext]_vars

\* ------------------------------------------------------------------------
\* Pool.ExtractWithHooks (v1).  The pool is held by its contents; keys and
\* prefixes are sequences of characters.  The struct filled has a string
\* field Name and an int field Zip; the decoder is the mapstructure library
\* with WeaklyTypedInput, taken by what it does to such a struct.
\* ------------------------------------------------------------------------
NameKey == <<"n", "a", "m", "e">>
ZipKey == <<"z", "i", "p">>
PrefixOne == <<"o", "n", "e", ".">>
PrefixTwo == <<"t", "w", "o", ".">>

\* The sections of the pools ExtractWithHooks is called on.
MainSections ==
    UNION {[K -> {"Guy", "2200", "x", ""}] : K \in SUBSET {NameKey, ZipKey}}

PrefixedSection ==
    [key \in {PrefixOne \o NameKey, PrefixOne \o ZipKey, PrefixTwo \o ZipKey} |->
        IF key = PrefixOne \o NameKey THEN "Kim"
        ELSE IF key = PrefixOne \o ZipKey THEN "2200" ELSE "x"]

HookPools ==
    {[name \in {"main", "prefixed"} |-> IF name = "main" THEN main ELSE PrefixedSection] :
        main \in {m \in MainSections : NameKey \in DOMAIN m => m[NameKey] \in {"Guy", ""}}}

\* The pre-hooks: none, one that accepts the map, one that returns an error,
\* and one that sets a default zip by changing the map.
PreHooks == {"nil", "accept", "reject", "default"}

\* The post-hooks: none, or one that counts its calls.
PostHooks == {"nil", "count"}

\* The struct passed as "out": a zero value, or one filled before.
ZeroContact == [Name |-> "", Zip |-> 0]
Targets == {ZeroContact, [Name |-> "old", Zip |-> 1]}

PreHookError == <<"I made a boo-boo">>
UnknownSection(section) == <<"unknown section name: ", section>>
DecodeError(field) == <<"cannot parse", field>>

HooksInit ==
    /\ hookPool \in HookPools
    /\ hookCall \in [section : {"main", "prefixed", "extra"},
                     prefix : {<<>>, PrefixOne, PrefixTwo},
                     pre : PreHooks,
                     post : PostHooks]
    /\ hookRun = [pc |-> "extract", params |-> EmptyMap, log |-> <<>>, err |-> NoError]
    /\ hookOut \in Targets
    /\ StoreIdle
    /\ PureIdle
    /\ ParamsIdle
    /\ PrintIdle
    /\ ThreadsIdle
    /\ TwoPoolsIdle

\* strings.HasPrefix(key, prefix)
HasPrefix(key, prefix) ==
    Len(key) >= Len(prefix) /\ SubSeq(key, 1, Len(prefix)) = prefix

\* strings.TrimPrefix(key, prefix)
TrimPrefix(key, prefix) ==
    IF HasPrefix(key, prefix) THEN SubSeq(key, Len(prefix) + 1, Len(key)) ELSE key

\* extractParams: the section, or with a prefix the keys that have it, with
\* the prefix cut.
extractParams(pool, section, prefix) ==
    IF section \notin DOMAIN pool
    THEN [params |-> EmptyMap, err |-> UnknownSection(section)]
    ELSE IF prefix # <<>>
    THEN LET kept == {key \in DOMAIN pool[section] : HasPrefix(key, prefix)}
         IN [params |-> [short \in {TrimPrefix(key, prefix) : key \in kept} |->
                            pool[section][prefix \o short]],
             err |-> NoError]
    ELSE [params |-> pool[section], err |-> NoError]

\* ExtractWithHooks has returned err.
HookReturn(err) == [hookRun EXCEPT !.pc = "done", !.err = err]

\* params, err := p.extractParams(section, prefix), and the return of err.
HookExtract ==
    /\ hookRun.pc = "extract"
    /\ \E r \in {extractParams(hookPool, hookCall.section, hookCall.prefix)} :
          hookRun' = IF r.err # NoError THEN HookReturn(r.err)
                     ELSE [hookRun EXCEPT !.params = r.params,
                                          !.pc = IF hookCall.pre = "nil" THEN "decode" ELSE "pre"]
    /\ UNCHANGED <<hookPool, hookCall, hookOut>>
    /\ UNCHANGED notHooks

\* What a pre-hook does to the map it is given, and what it returns.
CallPre(pre, m) ==
    IF pre = "reject" THEN [params |-> m, err |-> PreHookError]
    ELSE IF pre = "default" /\ (ZipKey \notin DOMAIN m \/ m[ZipKey] \in {"", "x"})
    THEN [params |-> Put(m, ZipKey, "2200"), err |-> NoError]
    ELSE [params |-> m, err |-> NoError]

\* Mutant of HookPre: the error of the pre-hook is kept for the return, and
\* the call goes on to decode.
HookPreGoesOn ==
    /\ hookRun.pc = "pre"
    /\ \E r \in {CallPre(hookCall.pre, hookRun.params)} :
          /\ hookRun' = [hookRun EXCEPT !.params = r.params, !.pc = "decode",
                                        !.err = r.err, !.log = Append(@, "pre")]
          /\ hookPool' = IF hookCall.prefix = <<>>
                         THEN Put(hookPool, hookCall.section, r.params)
                         ELSE hookPool
    /\ UNCHANGED <<hookCall, hookOut>>
    /\ UNCHANGED notHooks

\* err = pre(params), and the return of err.  Without a prefix params is the
\* pool's own section map, so the hook's changes are the pool's.
HookPre ==
    /\ hookRun.pc = "pre"
    /\ \E r \in {CallPre(hookCall.pre, hookRun.params)} :
          /\ hookRun' = IF r.err # NoError
                        THEN [HookReturn(r.err) EXCEPT !.log = Append(@, "pre")]
                        ELSE [hookRun EXCEPT !.params = r.params, !.pc = "decode",
                                             !.log = Append(@, "pre")]
          /\ hookPool' = IF hookCall.prefix = <<>>
                         THEN Put(hookPool, hookCall.section, r.params)
                         ELSE hookPool
    /\ UNCHANGED <<hookCall, hookOut>>
    /\ UNCHANGED notHooks

\* The decoder's weak conversion of a string to an int field.
WeakInt(str) ==
    IF str = "" THEN [value |-> 0, ok |-> TRUE]
    ELSE IF str = "2200" THEN [value |-> 2200, ok |-> TRUE]
    ELSE [value |-> 0, ok |-> FALSE]

\* decodeParams(params, out): each field that has a key of its name is set
\* when its value converts; a value that does not convert is the error.
decodeParams(m, target) ==
    LET named == IF NameKey \in DOMAIN m THEN [target EXCEPT !.Name = m[NameKey]] ELSE target
        zip == IF ZipKey \in DOMAIN m THEN WeakInt(m[ZipKey]) ELSE [value |-> target.Zip, ok |-> TRUE]
    IN [out |-> IF zip.ok THEN [named EXCEPT !.Zip = zip.value] ELSE named,
        err |-> IF zip.ok THEN NoError ELSE DecodeError("Zip")]

\* err = decodeParams(params, out), and the return of err, or of nil when
\* there is no post-hook.
HookDecode ==
    /\ hookRun.pc = "decode"
    /\ \E r \in {decodeParams(hookRun.params, hookOut)} :
          /\ hookOut' = r.out
          /\ hookRun' = IF r.err # NoError
                        THEN [HookReturn(r.err) EXCEPT !.log = Append(@, "decode")]
                        ELSE IF hookCall.post = "nil"
                        THEN [HookReturn(NoError) EXCEPT !.log = Append(@, "decode")]
                        ELSE [hookRun EXCEPT !.pc = "post", !.log = Append(@, "decode")]
    /\ UNCHANGED <<hookPool, hookCall>>
    /\ UNCHANGED notHooks

\* post(), and the return of nil.
HookPost ==
    /\ hookRun.pc = "post"
    /\ hookRun' = [HookReturn(NoError) EXCEPT !.log = Append(@, "post")]
    /\ UNCHANGED <<hookPool, hookCall, hookOut>>
    /\ UNCHANGED notHooks

HooksNext == HookExtract \/ HookPre \/ HookDecode \/ HookPost

HooksSpec == HooksInit /\ [][HooksNext]_vars

\* ------------------------------------------------------------------------
\* Properties of the pool and its caller (Spec).
\* ------------------------------------------------------------------------
PoolContent == Content(Store, params)

HeldContent == Content(Store, held.ref)

CallerMapWrites == {"CallerPut", "CallerDelete", "CallerDeleteSection", "CallerAddSection"}

CallerParamWrites == {"CallerPutParam", "CallerDeleteParam"}

\* C1: a write of the caller to the map Raw() returned (adding, changing or
\* deleting a section or a key) leaves the pool's contents, and so the result
\* of every later Get, Params and Raw, unchanged.
C1_RawIsIndependent ==
    [][(held.kind = "raw" /\ last'.op \in CallerMapWrites) => PoolContent' = PoolContent]_vars

\* C2: the pool shares no storage with a map passed to New or Merge: a write
\* of the caller to that map does not change the pool's contents, and a Set or
\* Unset on the pool does not change the contents of that map.
C2_ArgumentNotShared ==
    [][/\ (held.kind = "arg" /\ last'.op \in CallerMapWrites) => PoolContent' = PoolContent
       /\ (held.kind = "arg" /\ last'.op \in {"Set", "Unset"}) => HeldContent' = HeldContent]_vars

\* C3: Params(name) returns ok exactly when the pool has the section, and
\* then a map equal to the section; a write of the caller to the returned map
\* never changes the pool, and a Set, Unset or Merge on the pool never changes
\* the returned map.
C3_ParamsIsIndependentCopy ==
    [][/\ last'.op = "Params" =>
             /\ last'.ok <=> last'.section \in DOMAIN PoolContent
             /\ last'.ok => (got' # Nil /\ inner'[got'] = PoolContent[last'.section])
             /\ ~last'.ok => got' = Nil
             /\ PoolContent' = PoolContent
       /\ last'.op \in CallerParamWrites => PoolContent' = PoolContent
       /\ (got # Nil /\ last'.op \in {"Set", "Unset", "Merge"}) =>
             (got' # Nil /\ inner'[got'] = inner[got])]_vars

\* C3 witness: the caller holds a Params value, a write (of the caller to it,
\* or of Set to the pool) has followed, and no section of the pool equals it.
C3_Witness ==
    /\ got # Nil
    /\ last.op \in {"CallerPutParam", "Set"}
    /\ last.ok
    /\ DOMAIN PoolContent # {}
    /\ \A sec \in DOMAIN PoolContent : PoolContent[sec] # inner[got]

\* C4: when Merge(newData, Report) returns an error, the pool's contents are
\* what they were before the call.
C4_FailedMergeLeavesPool ==
    [][(last'.op = "Merge" /\ last'.value = Report /\ last'.err # NoError)
          => PoolContent' = PoolContent]_vars

\* C4 witness: a Report merge has failed on newData that also holds a key the
\* pool does not have.
C4_Witness ==
    /\ last.op = "Merge"
    /\ last.value = Report
    /\ last.err # NoError
    /\ \E sec \in DOMAIN HeldContent : \E key \in DOMAIN HeldContent[sec] :
          ~(sec \in DOMAIN PoolContent /\ key \in DOMAIN PoolContent[sec])

\* ------------------------------------------------------------------------
\* Properties of successive calls on the pool (CallSpec).
\* ------------------------------------------------------------------------

\* m holds value v for key k of section s.
Has(m, s, k, v) == s \in DOMAIN m /\ k \in DOMAIN m[s] /\ m[s][k] = v

\* last follows prev and names the same section and key.
SameKey == last.section = prev.section /\ last.key = prev.key

\* C11: a Get(S, K) that directly follows Unset(S, K) returns ok = false,
\* whatever value K held (the empty string included) and whatever Unset
\* returned.
C11_GetAfterUnset ==
    (prev.op = "Unset" /\ last.op = "Get" /\ SameKey) => ~last.ok

\* C11 witness: Unset has removed a key, the section is still there, and the
\* Get of that key has followed.
C11_Witness ==
    /\ prev.op = "Unset"
    /\ prev.ok
    /\ prev.key # ""
    /\ last.op = "Get"
    /\ SameKey
    /\ last.section \in DOMAIN PoolContent

\* C12: Unset returns true exactly when it removed something. Unset(S, "")
\* on an existing section removes S with all its keys and returns true, and a
\* Params(S) that follows returns ok = false; Unset(S, K) with K not empty
\* returns true iff K was in S, and then removes K only; Unset returns false
\* and leaves the pool as it was when S does not exist or K is not in S.
C12_UnsetReportsRemoval ==
    [][/\ last'.op = "Unset" =>
             IF last'.section \notin DOMAIN PoolContent
             THEN ~last'.ok /\ PoolContent' = PoolContent
             ELSE IF last'.key = ""
             THEN last'.ok /\ PoolContent' = Del(PoolContent, last'.section)
             ELSE IF last'.key \in DOMAIN PoolContent[last'.section]
             THEN /\ last'.ok
                  /\ PoolContent' = [PoolContent EXCEPT ![last'.section] = Del(@, last'.key)]
             ELSE ~last'.ok /\ PoolContent' = PoolContent
       /\ (/\ last.op = "Unset" /\ last.key = "" /\ last.ok
           /\ last'.op = "Params" /\ last'.section = last.section) => ~last'.ok]_vars

\* C12 witness: Unset(S, "") has removed a section, another section is left,
\* and Params(S) has followed.
C12_Witness ==
    /\ prev.op = "Unset"
    /\ prev.key = ""
    /\ prev.ok
    /\ last.op = "Params"
    /\ last.section = prev.section
    /\ DOMAIN PoolContent # {}

\* C13: Set on a section the pool does not have returns the NoSectionError
\* of the section and leaves the pool as it was; Set on a section the pool
\* has returns nil, and a Get of the same section and key that follows
\* returns the value and ok = true.
C13_SetNeedsSection ==
    [][/\ last'.op = "Set" =>
             IF last'.section \notin DOMAIN PoolContent
             THEN last'.err = <<last'.section>> /\ PoolContent' = PoolContent
             ELSE last'.err = NoError
       /\ (/\ last.op = "Set" /\ last.section \in DOMAIN PoolContent
           /\ last'.op = "Get" /\ last'.section = last.section /\ last'.key = last.key)
              => (last'.ok /\ last'.value = last.value)]_vars

\* prev is a Set(S, K, "") that has returned nil.
SetEmptyDone == prev.op = "Set" /\ prev.value = "" /\ prev.err = NoError

Missing == ret.key \notin DOMAIN secParams \/ secParams[ret.key] = <<>>

\* The option record the options passed make.
Opt == ApplyOptions(optList)

Required == \E i \in 1..Len(optList) : optList[i].set = "require"

\* C15: in the resolver, when the key is absent or holds the empty string
\* and Require() is among the options, the result is ("", NoKeyError(key)),
\* whatever the other options are (a non-empty Default and a validator the
\* default would pass included).
C15_RequireBeatsDefault ==
    (ret.op = "String" /\ Missing /\ Required) =>
        (ret.value = <<>> /\ ret.err = NoKeyError(ret.key))

\* C15 witness: the key holds the empty string, and Require, a non-empty
\* Default and a validator the default passes are all given.
C15_Witness ==
    /\ ret.op = "String"
    /\ ret.key \in DOMAIN secParams
    /\ secParams[ret.key] = <<>>
    /\ Required
    /\ Opt.defaultValue # <<>>
    /\ Opt.validateRegExp # NoRegExp
    /\ MatchString(Opt.validateRegExp, Opt.defaultValue)
    /\ ret.err = NoKeyError(ret.key)

\* The regular expression given (if one is) matches str.
PassesRegExp(str) ==
    Opt.validateRegExp = NoRegExp \/ MatchString(Opt.validateRegExp, str)

\* The validation function given (if one is) accepts str.
PassesFunc(str) ==
    Opt.validateFunc = NoFunc \/ CallValidateFunc(Opt.validateFunc, ret.key, str) = NoError

\* C16: in the resolver, when the key is absent or holds the empty string,
\* Require is not given and a non-empty Default(d) is, the default is
\* validated like any value: the result is (d, nil) when d passes the
\* validators given (or none is), and ("", the validation error) when d
\* fails the regular expression, or fails the validation function with no
\* regular expression given. When the key holds a non-empty value the
\* default is not used: the result is that value, or "" with an error.
C16_DefaultIsValidated ==
    ret.op = "String" =>
        /\ (Missing /\ ~Required /\ Opt.defaultValue # <<>>) =>
              /\ (PassesRegExp(Opt.defaultValue) /\ PassesFunc(Opt.defaultValue)) =>
                    (ret.value = Opt.defaultValue /\ ret.err = NoError)
              /\ ~PassesRegExp(Opt.defaultValue) =>
                    (ret.value = <<>> /\ ret.err = RegExpValidationError(ret.key))
              /\ (Opt.validateRegExp = NoRegExp /\ ~PassesFunc(Opt.defaultValue)) =>
                    /\ ret.value = <<>>
                    /\ ret.err = CallValidateFunc(Opt.validateFunc, ret.key, Opt.defaultValue)
        /\ ~Missing =>
              \/ ret.value = secParams[ret.key] /\ ret.err = NoError
              \/ ret.value = <<>> /\ ret.err # NoError

\* C16 witness: the key is absent, and the default given in its place has
\* failed the validator given.
C16_Witness ==
    /\ ret.op = "String"
    /\ ret.key \notin DOMAIN secParams
    /\ ~Required
    /\ Opt.defaultValue # <<>>
    /\ ~PassesRegExp(Opt.defaultValue)
    /\ ret.err = RegExpValidationError(ret.key)

\* The zero value of the type an accessor returns (nil for Strings).
ZeroOf(op) ==
    IF op \in {"Int", "Duration"} THEN 0
    ELSE IF op = "Float" THEN Decimal(0, 0)
    ELSE IF op = "Bool" THEN FALSE
    ELSE IF op = "Time" THEN ZeroTime
    ELSE <<>>

TypedAccessors == {"Int", "Float", "Bool", "Duration", "Time"}

\* C17: for a key that is absent or holds the empty string, with neither
\* Require nor a non-empty Default given, String returns ("", nil) and Int,
\* Float, Bool, Duration, Time and Strings return the zero value of their
\* type and a nil error, whatever validators are given.
C17_MissingIsZero ==
    (ret.op # "none" /\ Missing /\ ~Required /\ Opt.defaultValue = <<>>) =>
        (ret.value = ZeroOf(ret.op) /\ ret.err = NoError)

\* C17 witness: a typed accessor has returned for a key that holds the empty
\* string, with validators given that do not accept the empty string.
C17_Witness ==
    /\ ret.op \in TypedAccessors
    /\ ret.key \in DOMAIN secParams
    /\ secParams[ret.key] = <<>>
    /\ ~Required
    /\ Opt.defaultValue = <<>>
    /\ Opt.validateRegExp = lowerRegExp
    /\ Opt.validateFunc = validateABC
    /\ ret.err = NoError

\* What the resolver returns for the key accessed.
Resolved == ParamsString(secParams, ret.key, optList)

\* The name of the type in an accessor's ConversionError.
TypeName(op) ==
    IF op = "Int" THEN "int"
    ELSE IF op = "Float" THEN "float64"
    ELSE IF op = "Bool" THEN "bool"
    ELSE op

\* The conversion an accessor makes of str.
Conversion(op, str) ==
    IF op = "Int" THEN Atoi(str)
    ELSE IF op = "Float" THEN ParseFloat(str)
    ELSE IF op = "Bool" THEN [ok |-> str \in TrueWords \cup FalseWords, val |-> str \in TrueWords]
    ELSE IF op = "Duration" THEN ParseDuration(str)
    ELSE ParseTime(RFC3339, str)

\* C18: Int, Float, Bool, Duration and Time convert only what the resolver
\* has resolved: an error of the resolver is returned as it is, with the zero
\* value; a resolved value that is no literal of the type gives the zero
\* value and a ConversionError of the key, the resolved string (the default,
\* when it was substituted) and the type's name; a resolved value that is a
\* literal gives its conversion and nil. Int of a string with a character
\* that is neither a digit nor a sign is a ConversionError, not the number
\* its leading digits spell.
C18_ConvertAfterResolve ==
    ret.op \in TypedAccessors =>
        /\ Resolved.err # NoError =>
              (ret.value = ZeroOf(ret.op) /\ ret.err = Resolved.err)
        /\ (Resolved.err = NoError /\ Resolved.value # <<>>) =>
              IF Conversion(ret.op, Resolved.value).ok
              THEN /\ ret.value = Conversion(ret.op, Resolved.value).val
                   /\ ret.err = NoError
              ELSE /\ ret.value = ZeroOf(ret.op)
                   /\ ret.err = ConversionError(ret.key, Resolved.value, TypeName(ret.op))
        /\ (/\ ret.op = "Int"
            /\ Resolved.err = NoError
            /\ \E i \in 1..Len(Resolved.value) :
                  ~IsDigit(Resolved.value[i]) /\ Resolved.value[i] \notin {"+", "-"}) =>
              /\ ret.value = 0
              /\ ret.err = ConversionError(ret.key, Resolved.value, "int")

\* C18 witness: Int of an absent key with the default "12.5" has returned 0
\* and the ConversionError of the default.
C18_Witness ==
    /\ ret.op = "Int"
    /\ ret.key \notin DOMAIN secParams
    /\ Opt.defaultValue = <<"1", "2", ".", "5">>
    /\ ret.value = 0
    /\ ret.err = ConversionError(ret.key, <<"1", "2", ".", "5">>, "int")

\* ------------------------------------------------------------------------
\* Properties of MustPrettyPrint (PrintSpec).
\* ------------------------------------------------------------------------

\* The strings of the set S in ascending order.
Ascending(S) ==
    CHOOSE seq \in Perms(S) : \A i \in 1..(Cardinality(S) - 1) : StrLess(seq[i], seq[i + 1])

\* The strings of the sequence parts, with between between neighbours.
RECURSIVE Join(_, _)
Join(parts, between) ==
    IF parts = <<>> THEN <<>>
    ELSE IF Len(parts) = 1 THEN parts[1]
    ELSE parts[1] \o between \o Join(Tail(parts), between)

\* The lines of a section: its header, then one line per key in ascending
\* order.
SectionLines(pool, indent, name) ==
    LET keys == Ascending(DOMAIN pool[name])
    IN <<(<<"[">> \o name \o <<"]">>)>>
       \o [i \in 1..Len(keys) |-> indent \o keys[i] \o <<":", " ">> \o pool[name][keys[i]]]

\* The text of a pool: each section's lines joined by newlines, and the
\* sections, in ascending order, joined by one blank line.
PoolText(pool, indent) ==
    LET names == Ascending(DOMAIN pool)
    IN Join([i \in 1..Len(names) |-> Join(SectionLines(pool, indent, names[i]), <<"\n">>)],
            <<"\n", "\n">>)

\* C19: for names, keys, values and an indentation without newlines, the
\* result of MustPrettyPrint depends only on the pool and the indentation,
\* not on the order of the range loops: it is one [name] header per section
\* in ascending order of the names, each followed by the section's keys in
\* ascending order as lines indent + key + ": " + value, with one blank line
\* between consecutive sections and no newline at the start or the end; the
\* empty pool gives the empty string, a section without keys its header only.
C19_PrettyPrintIsSorted ==
    ppOut.done =>
        /\ ppOut.text = PoolText(ppPool, ppIndent)
        /\ DOMAIN ppPool = {} => ppOut.text = <<>>
        /\ ppOut.text # <<>> =>
              (ppOut.text[1] # "\n" /\ ppOut.text[Len(ppOut.text)] # "\n")

\* C19 witness: a pool of three sections has been printed, one of them
\* without keys and one with two keys, the last of which holds the empty
\* string.
C19_Witness ==
    /\ ppOut.done
    /\ DOMAIN ppPool = PrintNames
    /\ DOMAIN ppPool[<<"a", "b">>] = {}
    /\ DOMAIN ppPool[<<"b">>] = PrintKeys
    /\ ppPool[<<"b">>][<<"k", "2">>] = <<>>
    /\ ppIndent # <<>>

\* ------------------------------------------------------------------------
\* Properties of concurrent calls on one pool (ThreadsSpec).
\* ------------------------------------------------------------------------

\* Thread t is between its Lock and the end of its Unlock.
InCall(t) == pc[t] \notin {"lock", "done"}

\* Thread t is in a call that has still to write to p.params.
Changing(t) ==
    pc[t] \in {"set_put", "unset_delete_section", "unset_key", "unset_delete", "merge_assign"}

\* C20: in every interleaving of Get, Set, Unset, Merge, Params, Raw and
\* Compare calls on one pool, every read and write of p.params a call makes
\* is made by the thread that holds p.mu; at most one call is between its
\* Lock and its Unlock; and while a call is there p.params is what that call
\* found or made it, so that no call reads it while another call is part-way
\* through changing it.
C20_CallsHoldTheMutex ==
    /\ access.kind # "none" => mu = access.thread
    /\ \A t, u \in Threads : (InCall(t) /\ InCall(u)) => t = u
    /\ \A t \in Threads : InCall(t) => (mu = t /\ pmap = seen[t].snap)
    /\ \A t, u \in Threads : (access.thread = t /\ access.kind # "none" /\ u # t) => ~Changing(u)

\* C20 witness: one thread has changed the pool and returned, and the other
\* is reading the pool in its call afterwards.
C20_Witness ==
    \E t, u \in Threads :
        /\ pc[t] = "done"
        /\ task[t].op \in {"Set", "Unset", "Merge"}
        /\ retval[t].ok
        /\ task[u].op \in {"Raw", "Params", "Get", "Compare"}
        /\ InCall(u)
        /\ access = [thread |-> u, kind |-> "read"]

\* ------------------------------------------------------------------------
\* Properties of the merge and diff engines (PureSpec).
\* ------------------------------------------------------------------------

\* The section+key pairs present in both inputs.
Shared ==
    {sk \in Sections \X Keys :
        /\ sk[1] \in DOMAIN inFirst /\ sk[2] \in DOMAIN inFirst[sk[1]]
        /\ sk[1] \in DOMAIN inSecond /\ sk[2] \in DOMAIN inSecond[sk[1]]}

BothHaveSections == DOMAIN inFirst # {} /\ DOMAIN inSecond # {}

\* The sections and keys of either map, with the value of a where a has one.
UnionMap(a, b) ==
    [sec \in DOMAIN a \cup DOMAIN b |->
        LET ka == IF sec \in DOMAIN a THEN DOMAIN a[sec] ELSE {}
            kb == IF sec \in DOMAIN b THEN DOMAIN b[sec] ELSE {}
        IN [key \in ka \cup kb |-> IF key \in ka THEN a[sec][key] ELSE b[sec][key]]]

\* C5: under Report, with two inputs that each have a section, merge returns
\* an error naming a section+key present in both inputs whenever there is one,
\* whether or not the two values are equal; otherwise the error is nil.
C5_ReportNamesSharedKey ==
    (out.op = "merge" /\ inStrategy = Report) =>
        IF BothHaveSections /\ Shared # {} THEN out.err \in Shared ELSE out.err = NoError

\* C5 witness: a Report merge has failed on a key with the same value in both.
C5_Witness ==
    /\ out.op = "merge"
    /\ inStrategy = Report
    /\ out.err # NoError
    /\ inFirst[out.err[1]][out.err[2]] = inSecond[out.err[1]][out.err[2]]

\* C6 as claimed: under Report, when every section+key present in both inputs
\* has the same value in both, merge returns no error and the merged result.
C6_ReportOnlyDivergent ==
    (/\ out.op = "merge"
     /\ inStrategy = Report
     /\ \A sk \in Shared : inFirst[sk[1]][sk[2]] = inSecond[sk[1]][sk[2]])
        => (out.err = NoError /\ out.res = UnionMap(inFirst, inSecond))

\* C6 as amended: under Report, merge returns no error and the merged result
\* when no section+key is present in both inputs, and returns an error when
\* both inputs have sections and some section+key is present in both, equal
\* values included.
C6_ReportAnyShared ==
    (out.op = "merge" /\ inStrategy = Report) =>
        /\ Shared = {} => (out.err = NoError /\ out.res = UnionMap(inFirst, inSecond))
        /\ (BothHaveSections /\ Shared # {}) => out.err # NoError

\* C6 witness: a Report merge of two inputs with a common section and no
\* common key has succeeded.
C6_Witness ==
    /\ out.op = "merge"
    /\ inStrategy = Report
    /\ Shared = {}
    /\ \E sec \in DOMAIN inFirst \cap DOMAIN inSecond :
          DOMAIN inFirst[sec] # {} /\ DOMAIN inSecond[sec] # {}
    /\ out.err = NoError

\* C7: under Overwrite merge returns no error, and the result holds the
\* second input's value for every section+key present in both inputs.
C7_OverwriteTakesSecond ==
    (out.op = "merge" /\ inStrategy = Overwrite) =>
        /\ out.err = NoError
        /\ \A sk \in Shared : out.res[sk[1]][sk[2]] = inSecond[sk[1]][sk[2]]

\* C7 witness: an Overwrite merge of inputs that hold different values for a key.
C7_Witness ==
    /\ out.op = "merge"
    /\ inStrategy = Overwrite
    /\ \E sk \in Shared : inFirst[sk[1]][sk[2]] # inSecond[sk[1]][sk[2]]

\* C8: under Keep merge returns no error, and the result holds the first
\* input's value for every section+key present in both inputs.
C8_KeepTakesFirst ==
    (out.op = "merge" /\ inStrategy = Keep) =>
        /\ out.err = NoError
        /\ \A sk \in Shared : out.res[sk[1]][sk[2]] = inFirst[sk[1]][sk[2]]

\* C8 witness: a Keep merge of inputs that hold different values for a key.
C8_Witness ==
    /\ out.op = "merge"
    /\ inStrategy = Keep
    /\ \E sk \in Shared : inFirst[sk[1]][sk[2]] # inSecond[sk[1]][sk[2]]

\* C9: p.Compare(q) holds a section/key/value exactly when q holds it and p
\* does not (p lacks the section or the key, or holds another value).
C9_CompareOneDirection ==
    out.op = "Compare" =>
        \A s \in Sections, k \in Keys, v \in Values :
            Has(out.pq, s, k, v) <=> (Has(inSecond, s, k, v) /\ ~Has(inFirst, s, k, v))

\* C9 witness: Compare has run on pools with a common section in which one
\* key has the same value in both and another key has different values.
C9_Witness ==
    /\ out.op = "Compare"
    /\ \E s \in DOMAIN inFirst \cap DOMAIN inSecond :
          \E k1, k2 \in DOMAIN inFirst[s] \cap DOMAIN inSecond[s] :
              /\ inFirst[s][k1] = inSecond[s][k1]
              /\ inFirst[s][k2] # inSecond[s][k2]

\* C10: two pools have the same contents exactly when p1.Compare(p2) and
\* p2.Compare(p1) are both empty.
C10_IdenticalIffBothEmpty ==
    out.op = "Compare" =>
        ((inFirst = inSecond) <=> (DOMAIN out.pq = {} /\ DOMAIN out.qp = {}))

\* C10 witness: Compare is empty in one direction only.
C10_Witness ==
    /\ out.op = "Compare"
    /\ DOMAIN out.pq = {}
    /\ DOMAIN out.qp # {}

\* ------------------------------------------------------------------------
\* Properties of p.Compare(q) beside a call on q (TwoPoolsSpec).
\* ------------------------------------------------------------------------

\* The call on q has found what it will write to q.params or to one of its
\* sections, and the write is not yet done.
Modifying == chg.pc \in {"write", "writing", "assign"}

\* C21: p.Compare(q) reads q's section map under the locking discipline: a
\* Compare on p that runs beside a Set, Unset or Merge on q never reads
\* q.params, or a section of it, while that call is modifying it.
C21_CompareLocksOther ==
    (touch.thread = Comparer /\ touch.pool = "q" /\ touch.kind = "read") => ~Modifying

\* ------------------------------------------------------------------------
\* Properties of concurrent Merge calls on one pool (ThreadsSpec).
\* ------------------------------------------------------------------------

\* Every thread has made a Merge call and has returned from it.
MergesDone == \A t \in Threads : pc[t] = "done" /\ task[t].op = "Merge"

\* The Merge call tk run alone on a pool that holds c, with the range loops
\* in the order ord: the pool afterwards and the error returned.
MergeAlone(c, tk, ord) ==
    LET r == merge(c, tk.arg, tk.value, ord)
    IN [pool |-> IF r.err = NoError THEN r.res ELSE c, err |-> r.err]

\* The pool and the two results are those of t's call run on the pool as t
\* found it, followed by u's call.
SerialOrder(t, u) ==
    \E first \in RangeOrders(task[t].arg), second \in RangeOrders(task[u].arg) :
        LET a == MergeAlone(seen[t].at, task[t], first)
            b == MergeAlone(a.pool, task[u], second)
        IN /\ retval[t].err = a.err
           /\ retval[u].err = b.err
           /\ pmap = b.pool

\* Section s and key k are in the maps both threads merge under Report, the
\* pool c holds no such key, and each of the two maps alone merges into c.
SameNewEntry(c, s, k) ==
    /\ \A t \in Threads :
          /\ task[t].value = Report
          /\ s \in DOMAIN task[t].arg
          /\ k \in DOMAIN task[t].arg[s]
          /\ \A ord \in RangeOrders(task[t].arg) : MergeAlone(c, task[t], ord).err = NoError
    /\ s \in DOMAIN c => k \notin DOMAIN c[s]

\* C22: concurrent Merge calls on one pool take effect one after another in
\* some order: once both have returned, the pool and each call's error are
\* those of running the two calls in that order.  When both merge the same
\* new section and key under Report into a pool that lacks it, the call that
\* comes first returns nil, the other returns the conflict error, and the
\* pool holds the value of the call that returned nil.
C22_MergesAreSerial ==
    MergesDone =>
        \E t, u \in Threads :
            /\ t # u
            /\ SerialOrder(t, u)
            /\ \A s \in Sections, k \in Keys :
                  SameNewEntry(seen[t].at, s, k) =>
                      /\ retval[t].err = NoError
                      /\ retval[u].err # NoError
                      /\ retval[u].err[1] \in DOMAIN task[t].arg
                      /\ retval[u].err[2] \in DOMAIN task[t].arg[retval[u].err[1]]
                      /\ Has(pmap, s, k, task[t].arg[s][k])

\* C22 witness: two Report merges of db.host with different values into an
\* empty pool have both returned, and the second thread's value is held.
C22_Witness ==
    /\ MergesDone
    /\ SameNewEntry(EmptyMap, "db", "host")
    /\ task["t1"].arg["db"]["host"] = "x"
    /\ task["t2"].arg["db"]["host"] = ""
    /\ seen["t2"].at = EmptyMap
    /\ retval["t1"].err = <<"db", "host">>
    /\ retval["t2"].err = NoError
    /\ pmap["db"]["host"] = ""

\* ------------------------------------------------------------------------
\* Termination of concurrent calls (ThreadsFairSpec).
\* ------------------------------------------------------------------------

\* Thread t's call has returned and t has released the mutex.
CallReturned(t) == pc[t] = "done" /\ retval[t].done /\ mu # t

\* C23: every Pool operation releases the mutex on every return path, the
\* error returns of Merge and Set and the early returns of Get, Params and
\* Unset included, and waits for nothing but the mutex: with every thread
\* scheduled fairly, every call returns, and in the end the mutex is free.
C23_EveryCallReturns ==
    /\ [](\A t \in Threads : pc[t] = "done" => (retval[t].done /\ mu # t))
    /\ \A t \in Threads : <>[]CallReturned(t)
    /\ <>[](mu = Free)

\* C23 witness: a Set that returned NoSectionError and an Unset that
\* returned false early have both returned, and the mutex is free.
C23_Witness ==
    /\ \A t \in Threads : CallReturned(t)
    /\ mu = Free
    /\ task["t1"].op = "Set"
    /\ retval["t1"].err # NoError
    /\ task["t2"].op = "Unset"
    /\ ~retval["t2"].ok

\* ------------------------------------------------------------------------
\* Properties of chained merges and comparisons (ChainSpec).
\* ------------------------------------------------------------------------

\* Maps a and b hold a key of the same name in a section of the same name.
SharesKey(a, b) == \E s \in DOMAIN a \cap DOMAIN b : DOMAIN a[s] \cap DOMAIN b[s] # {}

\* No two of the three maps merged share a section+key.
NoSharedKey ==
    /\ ~SharesKey(inFirst, inSecond)
    /\ ~SharesKey(inFirst, out.third)
    /\ ~SharesKey(inSecond, out.third)

\* C24: merge under Overwrite is associative for non-conflicting inputs: for
\* maps A, B, C no two of which share a section+key, merge(merge(A, B), C)
\* and merge(A, merge(B, C)) both succeed and have identical content,
\* whatever the order of the range loops.
C24_OverwriteAssociative ==
    (out.op = "merge3" /\ inStrategy = Overwrite /\ NoSharedKey) =>
        /\ out.left.err = NoError
        /\ out.right.err = NoError
        /\ out.left.res = out.right.res

\* C24 witness: three maps with keys, no two sharing a section+key, the
\* second and the third with keys in the same section, have been merged
\* both ways under Overwrite.
C24_Witness ==
    /\ out.op = "merge3"
    /\ inStrategy = Overwrite
    /\ NoSharedKey
    /\ Entries(inFirst) > 0
    /\ "log" \in DOMAIN inSecond \cap DOMAIN out.third
    /\ "log" \notin DOMAIN inFirst
    /\ DOMAIN inSecond["log"] # {}
    /\ DOMAIN out.third["log"] # {}
    /\ Entries(out.left.res) = Entries(inFirst) + Entries(inSecond) + Entries(out.third)

\* ------------------------------------------------------------------------
\* Properties of ExtractWithHooks (HooksSpec).
\* ------------------------------------------------------------------------

\* The runs of pre-hook, decode and post-hook a call may make, in order.
HookOrders ==
    {<<>>, <<"pre">>, <<"decode">>, <<"pre", "decode">>, <<"decode", "post">>,
     <<"pre", "decode", "post">>}

\* The number of calls of the post-hook so far.
PostCalls == Cardinality({i \in DOMAIN hookRun.log : hookRun.log[i] = "post"})

HookDone == hookRun.pc = "done"

\* C25: ExtractWithHooks runs pre-hook, decode, post-hook in this order.
\* For an unknown section neither hook runs and an error is returned.  When
\* the pre-hook returns an error, that error is returned, the struct is left
\* as it was and the post-hook is not called.  The post-hook is called only
\* after a decode without error, and a call that returns nil has called the
\* post-hook given to it exactly once.
C25_HooksInOrder ==
    /\ [](/\ hookRun.log \in HookOrders
          /\ hookCall.section \notin DOMAIN hookPool =>
                (hookRun.log = <<>> /\ (HookDone => hookRun.err = UnknownSection(hookCall.section)))
          /\ (HookDone /\ hookCall.pre = "reject" /\ hookCall.section \in DOMAIN hookPool) =>
                (hookRun.err = PreHookError /\ hookRun.log = <<"pre">>)
          /\ PostCalls > 0 =>
                (hookRun.err = NoError /\ decodeParams(hookRun.params, hookOut).err = NoError)
          /\ (HookDone /\ hookRun.err = NoError /\ hookCall.post # "nil") => PostCalls = 1
          /\ (HookDone /\ hookRun.err = NoError) =>
                hookOut = decodeParams(hookRun.params, hookOut).out)
    /\ [][hookCall.pre = "reject" => hookOut' = hookOut]_vars

\* C25 witness: the pre-hook has replaced a zip that does not convert, the
\* decode after it has filled the struct, and the post-hook has run.
C25_Witness ==
    /\ HookDone
    /\ hookCall.pre = "default"
    /\ hookCall.prefix = PrefixTwo
    /\ hookPool["prefixed"][PrefixTwo \o ZipKey] = "x"
    /\ hookRun.log = <<"pre", "decode", "post">>
    /\ hookRun.err = NoError
    /\ hookOut.Zip = 2200

\* ------------------------------------------------------------------------
\* More properties of the merge engine (PureSpec).
\* ------------------------------------------------------------------------

\* The keys of section s of map m; none when m has no such section.
KeysOf(m, s) == IF s \in DOMAIN m THEN DOMAIN m[s] ELSE {}

\* C26: when merge succeeds, under any strategy, the result has exactly the
\* sections and keys that occur in at least one of the two inputs, a section
\* present only in the incoming input is copied whole, and every key that
\* occurs in only one input has that input's value.
C26_MergeIsUnion ==
    (out.op = "merge" /\ out.err = NoError) =>
        /\ DOMAIN out.res = DOMAIN inFirst \cup DOMAIN inSecond
        /\ \A s \in DOMAIN out.res :
              DOMAIN out.res[s] = KeysOf(inFirst, s) \cup KeysOf(inSecond, s)
        /\ \A s \in DOMAIN inSecond \ DOMAIN inFirst : out.res[s] = inSecond[s]
        /\ \A s \in DOMAIN out.res :
              /\ \A k \in KeysOf(inFirst, s) \ KeysOf(inSecond, s) : out.res[s][k] = inFirst[s][k]
              /\ \A k \in KeysOf(inSecond, s) \ KeysOf(inFirst, s) : out.res[s][k] = inSecond[s][k]

\* C26 witness: a merge has succeeded where the incoming input has a section
\* with keys that the base lacks, and a key of its own in a section both have.
C26_Witness ==
    /\ out.op = "merge"
    /\ out.err = NoError
    /\ DOMAIN inFirst = {"db"}
    /\ DOMAIN inSecond = {"db", "log"}
    /\ DOMAIN inSecond["log"] # {}
    /\ DOMAIN inFirst["db"] = {"host"}
    /\ DOMAIN inSecond["db"] = {"port"}
    /\ Entries(out.res) = 3

\* ------------------------------------------------------------------------
\* More properties of the option resolver (ParamsSpec).
\* ------------------------------------------------------------------------

\* The positions in the options passed of the options that set "slot".
Setting(slot) == {i \in 1..Len(optList) : optList[i].set = slot}

\* The value given by the last option passed that sets "slot".
LastGiven(slot) ==
    optList[CHOOSE i \in Setting(slot) : \A j \in Setting(slot) : j <= i].to

\* The non-empty value the section holds under the key asked for.
HeldValue == secParams[ret.key]

\* C27: with a non-empty value, when a regular-expression validator
\* (ValidateRegExp or ValidateIntegral) and a function-kind validator
\* (ValidateFunc or ValidateEnum) are both given, only the regular
\* expression is consulted: a value that matches is returned with a nil
\* error even if the function or enumeration rejects it, and a value that
\* does not match gives RegExpValidationError.  With function-kind
\* validators only, the one given last decides, alone.
C27_RegExpBeforeFunc ==
    (ret.op = "String" /\ ~Missing /\ Setting("validateFunc") # {}) =>
        IF Setting("validateRegExp") # {}
        THEN IF MatchString(LastGiven("validateRegExp"), HeldValue)
             THEN ret.value = HeldValue /\ ret.err = NoError
             ELSE ret.value = <<>> /\ ret.err = RegExpValidationError(ret.key)
        ELSE IF CallValidateFunc(LastGiven("validateFunc"), ret.key, HeldValue) = NoError
        THEN ret.value = HeldValue /\ ret.err = NoError
        ELSE /\ ret.value = <<>>
             /\ ret.err = CallValidateFunc(LastGiven("validateFunc"), ret.key, HeldValue)

\* C27 witness: ValidateFunc, ValidateEnum and a regular expression are all
\* given; the value matches the regular expression, the function given
\* first accepts it, the enumeration given after it rejects it, and the
\* value has been returned with a nil error.
C27_Witness ==
    /\ ret.op = "String"
    /\ ~Missing
    /\ Len(optList) = 3
    /\ optList[1] = ValidateFunc(validateABC)
    /\ optList[2].set = "validateFunc"
    /\ optList[2].to.kind = "enum"
    /\ optList[3].set = "validateRegExp"
    /\ MatchString(optList[3].to, HeldValue)
    /\ CallValidateFunc(optList[1].to, ret.key, HeldValue) = NoError
    /\ CallValidateFunc(optList[2].to, ret.key, HeldValue) # NoError
    /\ ret.value = HeldValue
    /\ ret.err = NoError

\* ------------------------------------------------------------------------
\* Keep and Overwrite (PureSpec).
\* ------------------------------------------------------------------------

\* C28: Keep and Overwrite are mirror images: for all maps A and B,
\* merge(A, B, Keep) and merge(B, A, Overwrite) succeed and return maps with
\* identical content, whatever the order of the range loops.
C28_KeepMirrorsOverwrite ==
    (out.op = "merge" /\ inStrategy = Keep) =>
        /\ out.err = NoError
        /\ \A ord \in RangeOrders(inFirst) :
              LET mirror == merge(inSecond, inFirst, Overwrite, ord)
              IN mirror.err = NoError /\ mirror.res = out.res

\* C28 witness: a merge under Keep of two maps that hold the same key with
\* different values, and a key each of their own, has returned.
C28_Witness ==
    /\ out.op = "merge"
    /\ inStrategy = Keep
    /\ \E s \in DOMAIN inFirst \cap DOMAIN inSecond :
          /\ \E k \in DOMAIN inFirst[s] \cap DOMAIN inSecond[s] : inFirst[s][k] # inSecond[s][k]
          /\ DOMAIN inFirst[s] \ DOMAIN inSecond[s] # {}
    /\ DOMAIN inSecond \ DOMAIN inFirst # {}

\* ------------------------------------------------------------------------
\* Merging a comparison result (ChainSpec).
\* ------------------------------------------------------------------------

\* Map m holds key k in section s.
HasKey(m, s, k) == s \in DOMAIN m /\ k \in DOMAIN m[s]

\* C29: merging a comparison result closes the difference: for pools p and
\* q, after p.Merge(p.Compare(q), Overwrite) the merge has returned nil,
\* p.Compare(q) is empty, every section, key and value of q is in p, and
\* every entry of p whose section+key does not occur in q is as it was.
C29_MergeOfCompareCloses ==
    (out.op = "close" /\ inStrategy = Overwrite) =>
        /\ out.err = NoError
        /\ DOMAIN out.after = {}
        /\ DOMAIN inSecond \subseteq DOMAIN out.pool
        /\ \A s \in DOMAIN inSecond : \A k \in DOMAIN inSecond[s] :
              Has(out.pool, s, k, inSecond[s][k])
        /\ \A s \in DOMAIN inFirst : \A k \in DOMAIN inFirst[s] :
              ~HasKey(inSecond, s, k) => Has(out.pool, s, k, inFirst[s][k])

\* C29 witness: q had a section p lacked, a key p lacked in a section both
\* had, and another value for a key both had; p had a key q lacked; and the
\* comparison result has been merged into p.
C29_Witness ==
    /\ out.op = "close"
    /\ inStrategy = Overwrite
    /\ DOMAIN inSecond \ DOMAIN inFirst # {}
    /\ \E s \in DOMAIN inFirst \cap DOMAIN inSecond :
          \E k \in DOMAIN inFirst[s] \cap DOMAIN inSecond[s] : inFirst[s][k] # inSecond[s][k]
    /\ \E s \in DOMAIN inFirst : \E k \in DOMAIN inFirst[s] : ~HasKey(inSecond, s, k)
    /\ DOMAIN out.after = {}

\* ------------------------------------------------------------------------
\* The frame of Set and Unset (FrameSpec).
\* ------------------------------------------------------------------------

\* Section s is in the pool before and after the step, or in neither; and so
\* is key k of it, with the same value.
SameSection(s) == (s \in DOMAIN PoolContent') = (s \in DOMAIN PoolContent)

SameEntry(s, k) ==
    /\ HasKey(PoolContent', s, k) = HasKey(PoolContent, s, k)
    /\ HasKey(PoolContent, s, k) => PoolContent'[s][k] = PoolContent[s][k]

\* C30: Set(S, K, V) and Unset(S, K) with a non-empty K change at most the
\* entry (S, K): every section stays or stays away, and every other key of S
\* and every key of another section keeps its presence and value.
\* Unset(S, "") changes no section other than S.
C30_SetUnsetFrame ==
    [][(last'.op \in {"Set", "Unset"}) =>
          /\ \A s \in Sections \ {last'.section} :
                SameSection(s) /\ \A k \in Keys : SameEntry(s, k)
          /\ last'.key # "" =>
                /\ SameSection(last'.section)
                /\ \A k \in Keys \ {last'.key} : SameEntry(last'.section, k)]_vars

====
